---- MODULE Spec2Model ----
\* A model of mmd.c, the miniature markdown library: the node store
\* (mmd_add, mmd_remove, mmdFree, mmdCopyAllText), the reference table
\* (mmd_ref_add, mmd_ref_find), the link parser (mmd_parse_link), the
\* inline tokenizer (mmd_parse_inline) and the line loop of mmdLoadFile.
\*
\* Pointers are node numbers (indices into the sequence nodes), NULL is 0.
\* A C string is a TLA+ string; the absent string (a NULL char pointer) is
\* NoStr.  A line buffer is a sequence of one-character strings in which
\* NUL marks a terminator, so that the code's splicing of terminators into
\* the buffer is modelled as it is written.
EXTENDS Integers, Sequences, FiniteSets, TLC

VARIABLES
  nodes,        \* the heap of mmd_t: a sequence of node records
  freed,        \* freed[n]: how many times free() was called on node n
  uaf,          \* TRUE once a field of a freed node was read or written
  fpc,          \* mmdFree: "idle", "loop", "done"
  fnode,        \* mmdFree: its argument
  fcur,         \* mmdFree: the loop variable current
  fsteps,       \* mmdFree: iterations of its loop so far
  cpc,          \* mmdCopyAllText: "idle", "loop", "done", "crash"
  cnode,        \* mmdCopyAllText: its argument
  ccur,         \* mmdCopyAllText: the loop variable current
  call,         \* mmdCopyAllText: the buffer all (NoStr while NULL)
  cfail,        \* mmdCopyAllText: TRUE when malloc/realloc returned NULL
  input,        \* the file: a sequence of lines, each a sequence of characters
  fpos,         \* the file position: index of the next line fgets returns
  line,         \* mmdLoadFile: the line buffer
  doc,          \* mmdLoadFile: doc.references (doc.root is node 1)
  current,      \* mmdLoadFile: current parent block
  block,        \* mmdLoadFile: current block
  blank_code,   \* mmdLoadFile: saved indented blank code line
  columns,      \* mmdLoadFile: alignment of table columns
  num_columns,  \* mmdLoadFile: number of columns in table
  rows,         \* mmdLoadFile: number of rows in table
  pc,           \* mmdLoadFile: "build", "parse", "done", "crash"
  stop,         \* where mmd_parse_inline stopped furthest in the last line
  peeked        \* the calls of mmd_is_table in the last iteration: for each
                \* call the number of lines that it read

treeVars  == <<nodes, freed, uaf, fpc, fnode, fcur, fsteps, cpc, cnode, ccur, call, cfail>>
parseVars == <<input, fpos, line, doc, current, block, blank_code, columns,
               num_columns, rows, pc, stop, peeked>>
vars      == <<treeVars, parseVars>>

-----------------------------------------------------------------------------
\* Bounds of the model.

\* the largest number of nodes a tree built for mmdFree holds
MaxFreeNodes == 6
\* the largest number of nodes a tree built for mmdCopyAllText holds
MaxTextNodes == 4
\* the largest number of lines of an input file
MaxLines == 3
\* the size of the line buffers, which stands for sizeof(line)
LineSize == 44
\* the largest number of lines of a file after the first two of its table
MaxRows == 3

-----------------------------------------------------------------------------
\* Values.

NULL  == 0
NoStr == "(null)"
NUL   == "NUL"
\* The backtick character, which a TLA+ string cannot hold
Backtick == "BACKTICK"

\* mmd_type_t in the order of the enumeration
TypeOrder ==
  << "NONE", "DOCUMENT", "METADATA", "BLOCK_QUOTE", "ORDERED_LIST",
     "UNORDERED_LIST", "LIST_ITEM", "TABLE", "TABLE_HEADER", "TABLE_BODY",
     "TABLE_ROW", "HEADING_1", "HEADING_2", "HEADING_3", "HEADING_4",
     "HEADING_5", "HEADING_6", "PARAGRAPH", "CODE_BLOCK", "THEMATIC_BREAK",
     "TABLE_HEADER_CELL", "TABLE_BODY_CELL_LEFT", "TABLE_BODY_CELL_CENTER",
     "TABLE_BODY_CELL_RIGHT", "NORMAL_TEXT", "EMPHASIZED_TEXT", "STRONG_TEXT",
     "STRUCK_TEXT", "LINKED_TEXT", "CODE_TEXT", "IMAGE", "HARD_BREAK",
     "SOFT_BREAK", "METADATA_TEXT" >>

TypeIndex(type) == CHOOSE i \in 1..Len(TypeOrder) : TypeOrder[i] = type

\* LET x == v IN Op(x), with v a value that is computed once: the result of
\* a call that the code stores in a local variable
Bind(v, Op(_)) == Op(v)

-----------------------------------------------------------------------------
\* The node store.

\* calloc(1, sizeof(mmd_t)) followed by the assignments of mmd_add
NewNode(parent, prev, type, whitespace, text, url) ==
  [ type |-> type, whitespace |-> whitespace, text |-> text, url |-> url,
    parent |-> parent, first_child |-> NULL, last_child |-> NULL,
    prev_sibling |-> prev, next_sibling |-> NULL ]

\* mmd_add with an allocation that succeeds; the new node is Len(ns) + 1
mmd_add(ns, parent, type, whitespace, text, url) ==
  LET temp == Len(ns) + 1
      last == IF parent = NULL THEN NULL ELSE ns[parent].last_child
      ns1  == IF parent = NULL THEN ns
              ELSE IF last # NULL
                THEN [ns EXCEPT ![last].next_sibling = temp,
                                ![parent].last_child = temp]
                ELSE [ns EXCEPT ![parent].first_child = temp,
                                ![parent].last_child  = temp]
  IN  Append(ns1, NewNode(parent, last, type, whitespace, text, url))

\* A faulty mmd_remove: the last_child of the parent is not updated.
mmd_remove_nolast(ns, node) ==
  IF ns[node].parent = NULL THEN ns
  ELSE
    LET p    == ns[node].parent
        prev == ns[node].prev_sibling
        next == ns[node].next_sibling
        ns1  == IF prev # NULL THEN [ns EXCEPT ![prev].next_sibling = next]
                ELSE [ns EXCEPT ![p].first_child = next]
        ns2  == IF next # NULL THEN [ns1 EXCEPT ![next].prev_sibling = prev]
                ELSE ns1
    IN  [ns2 EXCEPT ![node].parent = NULL, ![node].prev_sibling = NULL,
                    ![node].next_sibling = NULL]

\* mmd_remove
mmd_remove(ns, node) ==
  IF ns[node].parent = NULL THEN ns
  ELSE
    LET p    == ns[node].parent
        prev == ns[node].prev_sibling
        next == ns[node].next_sibling
        ns1  == IF prev # NULL THEN [ns EXCEPT ![prev].next_sibling = next]
                ELSE [ns EXCEPT ![p].first_child = next]
        ns2  == IF next # NULL THEN [ns1 EXCEPT ![next].prev_sibling = prev]
                ELSE [ns1 EXCEPT ![p].last_child = prev]
    IN  [ns2 EXCEPT ![node].parent = NULL, ![node].prev_sibling = NULL,
                    ![node].next_sibling = NULL]

mmdGetFirstChild(ns, node)  == IF node # NULL THEN ns[node].first_child ELSE NULL
mmdGetLastChild(ns, node)   == IF node # NULL THEN ns[node].last_child ELSE NULL
mmdGetNextSibling(ns, node) == IF node # NULL THEN ns[node].next_sibling ELSE NULL
mmdGetPrevSibling(ns, node) == IF node # NULL THEN ns[node].prev_sibling ELSE NULL
mmdGetParent(ns, node)      == IF node # NULL THEN ns[node].parent ELSE NULL
mmdGetText(ns, node)        == IF node # NULL THEN ns[node].text ELSE NoStr
mmdGetURL(ns, node)         == IF node # NULL THEN ns[node].url ELSE NoStr
mmdGetType(ns, node)        == IF node # NULL THEN ns[node].type ELSE "NONE"
mmdGetWhitespace(ns, node)  == IF node # NULL THEN ns[node].whitespace ELSE 0

mmdIsBlock(ns, node) ==
  IF node # NULL THEN TypeIndex(ns[node].type) < TypeIndex("NORMAL_TEXT")
  ELSE FALSE

\* The children of node, first to last, by the next_sibling chain
RECURSIVE SiblingsFrom(_, _)
SiblingsFrom(ns, n) ==
  IF n = NULL THEN <<>> ELSE <<n>> \o SiblingsFrom(ns, ns[n].next_sibling)

Children(ns, node) == SiblingsFrom(ns, ns[node].first_child)

-----------------------------------------------------------------------------
\* Characters, buffers and C strings.

\* isspace() in the C locale
isspace(c) == c \in {" ", "\t", "\n", "\r", "\f"}

\* isdigit()
isdigit(c) == c \in {"0", "1", "2", "3", "4", "5", "6", "7", "8", "9"}

\* tolower() on the letters the inputs use
tolower(c) ==
  CASE c = "A" -> "a" [] c = "B" -> "b" [] c = "C" -> "c" [] c = "D" -> "d"
    [] c = "E" -> "e" [] c = "F" -> "f" [] c = "G" -> "g" [] c = "H" -> "h"
    [] c = "I" -> "i" [] c = "J" -> "j" [] c = "K" -> "k" [] c = "L" -> "l"
    [] c = "M" -> "m" [] c = "N" -> "n" [] c = "O" -> "o" [] c = "P" -> "p"
    [] c = "Q" -> "q" [] c = "R" -> "r" [] c = "S" -> "s" [] c = "T" -> "t"
    [] c = "U" -> "u" [] c = "V" -> "v" [] c = "W" -> "w" [] c = "X" -> "x"
    [] c = "Y" -> "y" [] c = "Z" -> "z" [] OTHER -> c

\* The character at position p of buffer b (p[0] of a pointer p)
At(b, p) == IF p \in 1..Len(b) THEN b[p] ELSE NUL

\* The buffer with character c stored at position p
Put(b, p, c) == IF p \in 1..Len(b) THEN [b EXCEPT ![p] = c] ELSE b

\* strlen() of the C string at position p: the distance to the first
\* terminator
strlen(b, p) ==
  (CHOOSE q \in p..(IF p > Len(b) THEN p ELSE Len(b) + 1) :
     At(b, q) = NUL /\ \A r \in p..(q - 1) : At(b, r) # NUL) - p

\* The C string at position p as a sequence of characters
CSeq(b, p) == SubSeq(b, p, p + strlen(b, p) - 1)

\* A sequence of characters as a string
RECURSIVE Str(_)
Str(cs) ==
  IF cs = <<>> THEN ""
  ELSE IF Len(cs) = 1 THEN cs[1]
  ELSE Str(SubSeq(cs, 1, Len(cs) \div 2))
         \o Str(SubSeq(cs, Len(cs) \div 2 + 1, Len(cs)))

\* strdup() of the C string at position p; NoStr for a NULL pointer
CStr(b, p) == IF p = NULL THEN NoStr ELSE Str(CSeq(b, p))

\* A faulty strcasecmp: the names are compared with strcmp.
strcaseeq_exact(a, b) == a = b

\* strcasecmp(a, b) == 0
strcaseeq(a, b) ==
  /\ Len(a) = Len(b)
  /\ \A i \in 1..Len(a) : tolower(a[i]) = tolower(b[i])

\* strncmp(p, lit, Len(lit)) == 0 for a literal without terminator
strneq(b, p, lit) == \A i \in 1..Len(lit) : At(b, p + i - 1) = lit[i]

\* while (isspace(*p)) p ++
RECURSIVE SkipSpace(_, _)
SkipSpace(b, p) == IF isspace(At(b, p)) THEN SkipSpace(b, p + 1) ELSE p

\* while (*p && !isspace(*p)) p ++
RECURSIVE SkipNonSpace(_, _)
SkipNonSpace(b, p) ==
  IF At(b, p) # NUL /\ ~isspace(At(b, p)) THEN SkipNonSpace(b, p + 1) ELSE p

\* while (*p == c) p ++
RECURSIVE SkipChar(_, _, _)
SkipChar(b, p, c) == IF At(b, p) = c THEN SkipChar(b, p + 1, c) ELSE p

\* strchr(p, c) for c other than the terminator: a position, or NULL
RECURSIVE strchr(_, _, _)
strchr(b, p, c) ==
  IF At(b, p) = NUL THEN NULL
  ELSE IF At(b, p) = c THEN p ELSE strchr(b, p + 1, c)

-----------------------------------------------------------------------------
\* The reference table.

\* mmd_ref_find: the index of the reference called name, or NULL
mmd_ref_find(refs, name) ==
  IF \E i \in 1..Len(refs) : strcaseeq(name, refs[i].name)
    THEN CHOOSE i \in 1..Len(refs) :
           /\ strcaseeq(name, refs[i].name)
           /\ \A j \in 1..(i - 1) : ~strcaseeq(name, refs[j].name)
    ELSE NULL

\* A faulty pending loop: a definition does not patch the pending nodes.
Backpatch_none(ns, pending, url) == ns

\* ref->pending[i]->url = strdup(url) for every pending node
RECURSIVE Backpatch(_, _, _)
Backpatch(ns, pending, url) ==
  IF pending = <<>> THEN ns
  ELSE Backpatch([ns EXCEPT ![Head(pending)].url = url], Tail(pending), url)

\* A faulty guard: a definition replaces the url the reference already has.
mmd_ref_set_overwrite(refs, ns, node, ref, url) ==
  IF ref # NULL /\ url # NoStr
    THEN [ refs  |-> [refs EXCEPT ![ref].url = url, ![ref].pending = <<>>],
           nodes |-> Backpatch(IF node # NULL THEN [ns EXCEPT ![node].url = url]
                               ELSE ns,
                               refs[ref].pending, url),
           done  |-> TRUE ]
    ELSE [refs |-> refs, nodes |-> ns, done |-> FALSE]

\* "if (!ref->url && url) { ...; return; }" of mmd_ref_add: the reference
\* ref gets its url, which is copied to node and to the pending nodes
mmd_ref_set(refs, ns, node, ref, url) ==
  IF ref # NULL /\ refs[ref].url = NoStr /\ url # NoStr
    THEN [ refs  |-> [refs EXCEPT ![ref].url = url, ![ref].pending = <<>>],
           nodes |-> Backpatch(IF node # NULL THEN [ns EXCEPT ![node].url = url]
                               ELSE ns,
                               refs[ref].pending, url),
           done  |-> TRUE ]
    ELSE [refs |-> refs, nodes |-> ns, done |-> FALSE]

\* A faulty branch: node joins the pending nodes of a reference that has
\* its url already.
mmd_ref_link_pending(refs, ns, node, r) ==
  IF node = NULL THEN [refs |-> refs, nodes |-> ns]
  ELSE [refs  |-> [refs EXCEPT ![r].pending = Append(@, node)],
        nodes |-> IF refs[r].url # NoStr
                    THEN [ns EXCEPT ![node].url = refs[r].url] ELSE ns]

\* "if (node) { ... }" of mmd_ref_add: node gets the url of reference r, or
\* joins its pending nodes
mmd_ref_link(refs, ns, node, r) ==
  IF node = NULL THEN [refs |-> refs, nodes |-> ns]
  ELSE IF refs[r].url # NoStr
    THEN [refs |-> refs, nodes |-> [ns EXCEPT ![node].url = refs[r].url]]
    ELSE [refs |-> [refs EXCEPT ![r].pending = Append(@, node)], nodes |-> ns]

\* mmd_ref_add once mmd_ref_find has returned ref and the url of a reference
\* that had none has been set (set)
mmd_ref_found(refs, ns, node, name, url, ref, set) ==
  IF set.done THEN [refs |-> set.refs, nodes |-> set.nodes]
  ELSE IF ref # NULL THEN mmd_ref_link(refs, ns, node, ref)
  ELSE mmd_ref_link(Append(refs, [name |-> name, url |-> url,
                                  pending |-> <<>>]),
                    ns, node, Len(refs) + 1)

\* mmd_ref_add(doc, node, name, url) with allocations that succeed: the
\* references and the nodes afterwards.  name is a sequence of characters,
\* url a string or NoStr
mmd_ref_add(refs, ns, node, name, url) ==
  mmd_ref_found(refs, ns, node, name, url, mmd_ref_find(refs, name),
                mmd_ref_set(refs, ns, node, mmd_ref_find(refs, name), url))

-----------------------------------------------------------------------------
\* mmd_parse_link.

\* while (*p && *p != '"') p ++
RECURSIVE SkipQuoted(_, _)
SkipQuoted(b, p) ==
  IF At(b, p) # NUL /\ At(b, p) # "\"" THEN SkipQuoted(b, p + 1) ELSE p

\* The three scanning loops of mmd_parse_link, up to close or the terminator:
\* a quoted stretch is skipped, and with splice a whitespace character is
\* overwritten with a terminator.  early: the loop returned from
\* mmd_parse_link at the terminator of an unclosed quote
RECURSIVE LinkScan(_, _, _, _)
LinkScan(b, p, close, splice) ==
  IF At(b, p) = NUL \/ At(b, p) = close
    THEN [buf |-> b, p |-> p, early |-> FALSE]
  ELSE IF splice /\ isspace(At(b, p))
    THEN LinkScan(Put(b, p, NUL), p + 1, close, splice)
  ELSE IF At(b, p) = "\""
    THEN LET q == SkipQuoted(b, p + 1)
         IN  IF At(b, q) = NUL THEN [buf |-> b, p |-> q, early |-> TRUE]
             ELSE LinkScan(b, q + 1, close, splice)
  ELSE LinkScan(b, p + 1, close, splice)

LinkResult(b, ns, refs, lineptr, text, url, refname) ==
  [ buf |-> b, nodes |-> ns, refs |-> refs, lineptr |-> lineptr,
    text |-> text, url |-> url, refname |-> refname ]

\* "(": Get URL...  url is the position after "("
LinkUrl(r2, ns, refs, text, url) ==
  IF r2.early
    THEN LinkResult(r2.buf, ns, refs, r2.p, text, url, NULL)
    ELSE LinkResult(Put(r2.buf, r2.p, NUL), ns, refs, r2.p + 1, text, url,
                    NULL)

\* "[": Get reference...  refname is the position after "["; an empty name
\* is replaced by the text
LinkReference(r2, ns, refs, text, refname) ==
  IF r2.early
    THEN LinkResult(r2.buf, ns, refs, r2.p, text, NULL, refname)
    ELSE LinkResult(Put(r2.buf, r2.p, NUL), ns, refs, r2.p + 1, text, NULL,
                    IF At(Put(r2.buf, r2.p, NUL), refname) = NUL THEN text
                    ELSE refname)

\* The reference of a definition line is added: mmd_ref_add(doc, NULL, *text,
\* *url), and text and url are reset
LinkDefined(b3, ra, p3) ==
  LinkResult(b3, ra.nodes, ra.refs, p3, NULL, NULL, NULL)

\* ":": Get reference definition...  url is the position of the url, p3 the
\* position after it
LinkDefinition(b1, ns, refs, text, url, p3) ==
  LinkDefined(Put(b1, p3, NUL),
              mmd_ref_add(refs, ns, NULL, CSeq(b1, text),
                          CStr(Put(b1, p3, NUL), url)),
              p3)

\* After the text: b1 is the buffer with the "]" overwritten, p1 the position
\* of the first character after it that is not white space
LinkAfterText(b1, ns, refs, text, p1) ==
  IF At(b1, p1) = "("
    THEN LinkUrl(LinkScan(b1, p1 + 1, ")", TRUE), ns, refs, text, p1 + 1)
  ELSE IF At(b1, p1) = "["
    THEN LinkReference(LinkScan(b1, p1 + 1, "]", TRUE), ns, refs, text, p1 + 1)
  ELSE IF At(b1, p1) = ":"
    THEN LinkDefinition(b1, ns, refs, text, SkipSpace(b1, p1 + 1),
                        SkipNonSpace(b1, SkipSpace(b1, p1 + 1)))
  ELSE LinkResult(b1, ns, refs, p1, text, NULL, NULL)

\* The text has been scanned: r1 is where the scan ended
LinkText(b, ns, refs, text, r1) ==
  IF r1.early \/ At(b, r1.p) = NUL
    THEN LinkResult(b, ns, refs, r1.p, text, NULL, NULL)
    ELSE LinkAfterText(Put(b, r1.p, NUL), ns, refs, text,
                       SkipSpace(Put(b, r1.p, NUL), r1.p + 1))

\* mmd_parse_link(doc, lineptr, &text, &url, &refname): lineptr is at "[".
\* text, url and refname are positions in the buffer, or NULL
mmd_parse_link(b, ns, refs, lineptr) ==
  LinkText(b, ns, refs, lineptr + 1, LinkScan(b, lineptr + 1, "]", FALSE))

-----------------------------------------------------------------------------
\* mmd_parse_inline.

\* mmd_add(parent, type, whitespace, text, url) with text and url taken from
\* the buffer of tokenizer state s
InlineAdd(s, parent, type, whitespace, text, url) ==
  [s EXCEPT !.nodes = mmd_add(s.nodes, parent, type, whitespace,
                              CStr(s.buf, text), CStr(s.buf, url))]

\* "if (text) { mmd_add(parent, type, whitespace, text, NULL); ... }" before an
\* image, a link or an autolink: the run is not terminated at lineptr
FlushRun(s, parent) ==
  IF s.text # NULL
    THEN [InlineAdd(s, parent, s.type, s.whitespace, s.text, NULL)
            EXCEPT !.text = NULL, !.whitespace = 0]
    ELSE s

\* "if (text) { *lineptr = '\0'; mmd_add(...); ... }" at a delimiter: the run
\* ends at lineptr, where restore is written back afterwards
FlushRunAt(s, parent, restore) ==
  IF s.text # NULL
    THEN LET s1 == InlineAdd([s EXCEPT !.buf = Put(s.buf, s.lineptr, NUL)],
                             parent, s.type, s.whitespace, s.text, NULL)
         IN  [s1 EXCEPT !.buf = Put(s1.buf, s.lineptr, restore),
                        !.text = NULL, !.whitespace = 0]
    ELSE s

\* The end of the image and link branches: "if (!*lineptr) return;" and the
\* reset of text, url and whitespace
AfterLink(s, lineptr) ==
  IF At(s.buf, lineptr) = NUL
    THEN [s EXCEPT !.lineptr = lineptr, !.text = NULL, !.ret = TRUE]
    ELSE [s EXCEPT !.lineptr = lineptr - 1, !.text = NULL, !.whitespace = 0]

\* A faulty whitespace branch: the whitespace flag is not set.
InlineSpace_noflag(s, parent) ==
  Bind(IF s.text # NULL
         THEN [InlineAdd([s EXCEPT !.buf = Put(s.buf, s.lineptr, NUL)],
                         parent, s.type, s.whitespace, s.text, NULL)
                 EXCEPT !.text = NULL]
         ELSE s,
       LAMBDA s2 :
         IF isspace(At(s2.buf, s.lineptr + 1))
            /\ At(s2.buf, s.lineptr + 2) = NUL
           THEN InlineAdd(s2, parent, "HARD_BREAK", 0, NULL, NULL)
           ELSE s2)

\* The whitespace branch
InlineSpace(s, parent) ==
  Bind([(IF s.text # NULL
           THEN [InlineAdd([s EXCEPT !.buf = Put(s.buf, s.lineptr, NUL)],
                           parent, s.type, s.whitespace, s.text, NULL)
                   EXCEPT !.text = NULL]
           ELSE s) EXCEPT !.whitespace = 1],
       LAMBDA s2 :
         IF isspace(At(s2.buf, s.lineptr + 1))
            /\ At(s2.buf, s.lineptr + 2) = NUL
           THEN InlineAdd(s2, parent, "HARD_BREAK", 0, NULL, NULL)
           ELSE s2)

\* The tokenizer state after mmd_parse_link returned r
LinkParsed(s, r) == [s EXCEPT !.buf = r.buf, !.nodes = r.nodes, !.refs = r.refs]

\* "if (refname) mmd_ref_add(doc, node, refname, NULL)" for the node that
\* was added last
LinkRefAdd(s, refname) ==
  Bind(mmd_ref_add(s.refs, s.nodes, Len(s.nodes), CSeq(s.buf, refname), NoStr),
       LAMBDA ra : [s EXCEPT !.refs = ra.refs, !.nodes = ra.nodes])

\* The image branch
InlineImage(s, parent) ==
  Bind(FlushRun(s, parent), LAMBDA s1 :
  Bind(mmd_parse_link(s1.buf, s1.nodes, s1.refs, s.lineptr + 1), LAMBDA r :
  Bind(IF r.url # NULL \/ r.refname # NULL
         THEN InlineAdd(LinkParsed(s1, r), parent, "IMAGE", s1.whitespace,
                        r.text, r.url)
         ELSE LinkParsed(s1, r),
       LAMBDA s3 :
         AfterLink(IF r.refname # NULL THEN LinkRefAdd(s3, r.refname) ELSE s3,
                   r.lineptr))))

\* "if (text && *text == '`') { ... } else if (text) ... else node = NULL" of
\* the link branch: s2 is the state after mmd_parse_link returned r
LinkNode(s2, parent, whitespace, r) ==
  IF r.text # NULL /\ At(s2.buf, r.text) = Backtick
    THEN Bind(r.text + strlen(s2.buf, r.text) - 1, LAMBDA end :
           InlineAdd(IF end > r.text + 1 /\ At(s2.buf, end) = Backtick
                       THEN [s2 EXCEPT !.buf = Put(s2.buf, end, NUL)] ELSE s2,
                     parent, "CODE_TEXT", whitespace, r.text + 1, r.url))
  ELSE IF r.text # NULL
    THEN InlineAdd(s2, parent, "LINKED_TEXT", whitespace, r.text, r.url)
  ELSE s2

\* The link branch
InlineLink(s, parent) ==
  Bind(FlushRun(s, parent), LAMBDA s1 :
  Bind(mmd_parse_link(s1.buf, s1.nodes, s1.refs, s.lineptr), LAMBDA r :
  Bind(LinkNode(LinkParsed(s1, r), parent, s1.whitespace, r), LAMBDA s3 :
    AfterLink(IF r.refname # NULL /\ r.text # NULL
                THEN LinkRefAdd(s3, r.refname) ELSE s3,
              r.lineptr))))

\* The autolink branch
InlineAutolink(s, parent) ==
  Bind(FlushRun(s, parent), LAMBDA s1 :
  Bind(strchr(s1.buf, s.lineptr + 1, ">"), LAMBDA gt :
    [InlineAdd([s1 EXCEPT !.buf = Put(s1.buf, gt, NUL)], parent,
               "LINKED_TEXT", s1.whitespace, s.lineptr + 1, s.lineptr + 1)
       EXCEPT !.lineptr = gt, !.text = NULL, !.whitespace = 0]))

\* The "*" and "_" branch once the run before the delimiter is flushed (s1)
EmphasisToggle(s1, lineptr, delim) ==
  IF s1.type = "NORMAL_TEXT"
    THEN IF At(s1.buf, lineptr + 1) = delim /\ ~isspace(At(s1.buf, lineptr + 2))
           THEN [s1 EXCEPT !.type = "STRONG_TEXT", !.lineptr = lineptr + 1,
                           !.text = lineptr + 2]
         ELSE IF ~isspace(At(s1.buf, lineptr + 1))
           THEN [s1 EXCEPT !.type = "EMPHASIZED_TEXT", !.text = lineptr + 1]
         ELSE [s1 EXCEPT !.text = lineptr + 1]
    ELSE [s1 EXCEPT !.type = "NORMAL_TEXT",
                    !.lineptr = IF At(s1.buf, lineptr + 1) = delim
                                  THEN lineptr + 1 ELSE lineptr]

\* The "*" and "_" branch
InlineEmphasis(s, parent) ==
  EmphasisToggle(FlushRunAt(s, parent, At(s.buf, s.lineptr)), s.lineptr,
                 At(s.buf, s.lineptr))

\* The "~~" branch once the run before the delimiter is flushed (s1)
StrikeToggle(s1, lineptr) ==
  IF ~isspace(At(s1.buf, lineptr + 2)) /\ s1.type = "NORMAL_TEXT"
    THEN [s1 EXCEPT !.type = "STRUCK_TEXT", !.text = lineptr + 2]
    ELSE [s1 EXCEPT !.type = "NORMAL_TEXT", !.lineptr = lineptr + 1]

\* The "~~" branch
InlineStrike(s, parent) == StrikeToggle(FlushRunAt(s, parent, "~"), s.lineptr)

\* The backtick branch once the run before the backtick is flushed (s1)
CodeToggle(s1, lineptr) ==
  IF s1.type = "CODE_TEXT"
    THEN [s1 EXCEPT !.type = "NORMAL_TEXT"]
    ELSE [s1 EXCEPT !.type = "CODE_TEXT", !.text = lineptr + 1]

\* The backtick branch
InlineCode(s, parent) == CodeToggle(FlushRunAt(s, parent, NUL), s.lineptr)

\* memmove(lineptr, lineptr + 1, strlen(lineptr))
memmove_left(b, lineptr) ==
  LET n == strlen(b, lineptr)
  IN  [i \in 1..Len(b) |->
         IF i >= lineptr /\ i < lineptr + n THEN At(b, i + 1) ELSE b[i]]

\* One iteration of the loop of mmd_parse_inline, without its lineptr ++
InlineBody(s, parent) ==
  LET c      == At(s.buf, s.lineptr)
      c1     == At(s.buf, s.lineptr + 1)
      incode == s.type = "CODE_TEXT"
  IN
  IF isspace(c) /\ ~incode THEN InlineSpace(s, parent)
  ELSE IF c = "!" /\ c1 = "[" /\ ~incode THEN InlineImage(s, parent)
  ELSE IF c = "[" /\ ~incode THEN InlineLink(s, parent)
  ELSE IF c = "<" /\ ~incode /\ strchr(s.buf, s.lineptr + 1, ">") # NULL
    THEN InlineAutolink(s, parent)
  ELSE IF (c = "*" \/ c = "_") /\ ~incode THEN InlineEmphasis(s, parent)
  ELSE IF c = "~" /\ c1 = "~" /\ ~incode THEN InlineStrike(s, parent)
  ELSE IF c = Backtick THEN InlineCode(s, parent)
  ELSE IF s.text = NULL
    THEN IF c = "\\" /\ c1 # NUL
           THEN [s EXCEPT !.lineptr = s.lineptr + 1, !.text = s.lineptr + 1]
           ELSE [s EXCEPT !.text = s.lineptr]
  ELSE IF c = "\\" /\ c1 # NUL
    THEN [s EXCEPT !.buf = memmove_left(s.buf, s.lineptr)]
  ELSE s

\* The character at p is one that no branch of the loop of mmd_parse_inline
\* tests for: with text set, the iteration does nothing
IsPlain(b, p, incode) ==
  /\ At(b, p) \notin {NUL, Backtick, "\\"}
  /\ \/ incode
     \/ ~isspace(At(b, p)) /\ At(b, p) \notin {"!", "[", "<", "*", "_", "~"}

\* The first position from p on whose character is not such a character
PlainEnd(b, p, incode) ==
  CHOOSE q \in p..(IF p > Len(b) THEN p ELSE Len(b) + 1) :
    ~IsPlain(b, q, incode) /\ \A r \in p..(q - 1) : IsPlain(b, r, incode)

\* The loop of mmd_parse_inline and the flush after it; the iterations
\* inside a run of text are taken together
RECURSIVE InlineLoop(_, _)
RECURSIVE InlineNext(_, _)
InlineLoop(s, parent) ==
  IF At(s.buf, s.lineptr) = NUL
    THEN IF s.text # NULL
           THEN InlineAdd(s, parent, s.type, s.whitespace, s.text, NULL)
           ELSE s
  ELSE IF s.text # NULL /\ IsPlain(s.buf, s.lineptr, s.type = "CODE_TEXT")
    THEN InlineLoop([s EXCEPT !.lineptr =
                       PlainEnd(s.buf, s.lineptr, s.type = "CODE_TEXT")],
                    parent)
  ELSE InlineNext(InlineBody(s, parent), parent)

\* "lineptr ++" of the loop, unless the iteration returned
InlineNext(s1, parent) ==
  IF s1.ret THEN s1
  ELSE InlineLoop([s1 EXCEPT !.lineptr = s1.lineptr + 1], parent)

\* mmd_parse_inline(doc, parent, line): the buffer, the nodes and the
\* references afterwards, and lineptr when the function returns
mmd_parse_inline(b, ns, refs, parent, linestart) ==
  Bind(InlineLoop([ buf |-> b, nodes |-> ns, refs |-> refs,
                    lineptr |-> linestart, text |-> NULL,
                    type |-> "NORMAL_TEXT",
                    whitespace |-> IF ns[parent].last_child # NULL
                                     THEN 1 ELSE 0,
                    ret |-> FALSE ], parent),
       LAMBDA s : [buf |-> s.buf, nodes |-> s.nodes, refs |-> s.refs,
                   lineptr |-> s.lineptr])

-----------------------------------------------------------------------------
\* mmdLoadFile.

\* sizeof(columns) / sizeof(columns[0])
MaxColumns == 256

\* fgets(line, sizeof(line), fp) of a line shorter than the buffer: the
\* characters and the terminator are stored, the rest of the buffer is kept
fgets(b, l) ==
  [i \in 1..LineSize |->
     IF i <= Len(l) THEN l[i] ELSE IF i = Len(l) + 1 THEN NUL ELSE b[i]]

\* columns[col]; the array is a sequence that holds the entries up to the
\* last one written, every other entry is the MMD_TYPE_TABLE_BODY_CELL_LEFT
\* that the start of a table stores
ColumnAt(cols, col) ==
  IF col + 1 <= Len(cols) THEN cols[col + 1] ELSE "TABLE_BODY_CELL_LEFT"

\* columns[col] = type
ColumnPut(cols, col, type) ==
  [i \in 1..(IF col + 1 > Len(cols) THEN col + 1 ELSE Len(cols)) |->
     IF i = col + 1 THEN type ELSE ColumnAt(cols, i - 1)]

\* mmd_add(parent, type, 0, text, NULL) on parser state ps
LoadAdd(ps, parent, type, text) ==
  [ps EXCEPT !.nodes = mmd_add(ps.nodes, parent, type, 0, text, NoStr)]

\* The node mmd_add returns next
NewId(ps) == Len(ps.nodes) + 1

\* The test of the loop of mmd_is_table on line l
IsDivider(l) ==
  \A i \in 1..Len(l) :
    \/ (l[i] = ">" /\ i = 1)
    \/ l[i] \in {" ", "\t", "\n", "\r", ":", "-", "|"}

\* A faulty lookahead: the file position is not restored.
mmd_is_table_noseek(file, pos) ==
  IF pos > Len(file) THEN [is_table |-> FALSE, fpos |-> pos, read |-> 0]
  ELSE [is_table |-> IsDivider(file[pos]), fpos |-> pos + 1, read |-> 1]

\* mmd_is_table(fp): pos = ftell(fp), the next line is read into a buffer of
\* its own and fseek(fp, pos, SEEK_SET) restores the file position; read is
\* the number of lines fgets returned
mmd_is_table(file, pos) ==
  IF pos > Len(file) THEN [is_table |-> FALSE, fpos |-> pos, read |-> 0]
  ELSE [is_table |-> IsDivider(file[pos]), fpos |-> pos, read |-> 1]

\* The indented code block branch
LoadIndented(ps) ==
  LET ps1 == IF ps.current = 1
               THEN [LoadAdd(ps, 1, "CODE_BLOCK", NoStr)
                       EXCEPT !.current = NewId(ps)]
               ELSE ps
      ps2 == IF ps1.blank_code # 0
               THEN LoadAdd(ps1, ps1.current, "CODE_TEXT", "\n") ELSE ps1
  IN  [LoadAdd(ps2, ps2.current, "CODE_TEXT", CStr(ps2.buf, 5))
         EXCEPT !.blank_code = 0]

\* The fence branch
LoadFence(ps) ==
  LET b == ps.block IN
  IF b # NULL /\ ps.nodes[b].type = "CODE_BLOCK" THEN [ps EXCEPT !.block = NULL]
  ELSE
    LET parent == IF b = NULL THEN ps.current
                  ELSE IF ps.nodes[b].type = "LIST_ITEM" THEN b
                  ELSE IF ps.nodes[ps.nodes[b].parent].type = "LIST_ITEM"
                    THEN ps.nodes[b].parent
                  ELSE ps.current
    IN  [LoadAdd(ps, parent, "CODE_BLOCK", NoStr) EXCEPT !.block = NewId(ps)]

\* The loop that reads the lines of the metadata block
RECURSIVE LoadMetadataLines(_, _, _)
LoadMetadataLines(ps, file, meta) ==
  IF ps.fpos > Len(file) THEN ps
  ELSE
    LET b       == fgets(ps.buf, file[ps.fpos])
        ps1     == [ps EXCEPT !.buf = b, !.fpos = ps.fpos + 1]
        lineptr == SkipSpace(b, 1)
        lineend == lineptr + strlen(b, lineptr) - 1
        b1      == IF lineend > lineptr /\ At(b, lineend) = "\n"
                     THEN Put(b, lineend, NUL) ELSE b
    IN  IF strneq(b, 1, <<"-", "-", "-">>) \/ strneq(b, 1, <<".", ".", ".">>)
          THEN ps1
          ELSE LoadMetadataLines(
                 LoadAdd([ps1 EXCEPT !.buf = b1], meta, "METADATA_TEXT",
                         CStr(b1, lineptr)),
                 file, meta)

\* The document metadata branch
LoadMetadata(ps, file) ==
  [LoadMetadataLines(LoadAdd(ps, 1, "METADATA", NoStr), file, NewId(ps))
     EXCEPT !.block = NULL]

\* while (*lineptr && (*lineptr == ch || isspace(*lineptr))) lineptr ++
RECURSIVE SkipRule(_, _, _)
SkipRule(b, p, ch) ==
  IF At(b, p) # NUL /\ (At(b, p) = ch \/ isspace(At(b, p)))
    THEN SkipRule(b, p + 1, ch) ELSE p

\* The walk from current up to the nearest block quote, or the root
RECURSIVE FindQuote(_, _)
FindQuote(ns, node) ==
  IF node = 1 \/ ns[node].type = "BLOCK_QUOTE" THEN node
  ELSE FindQuote(ns, ns[node].parent)

\* The block quote step: the parser state and lineptr afterwards
LoadQuote(ps, lineptr) ==
  IF At(ps.buf, lineptr) = ">"
    THEN LET node == FindQuote(ps.nodes, ps.current)
             ps1  == IF node = 1 \/ ps.nodes[node].type # "BLOCK_QUOTE"
                       THEN [LoadAdd(ps, 1, "BLOCK_QUOTE", NoStr)
                               EXCEPT !.current = NewId(ps)]
                       ELSE ps
         IN  [ps |-> ps1, lineptr |-> SkipSpace(ps.buf, lineptr + 1)]
  ELSE IF ps.nodes[ps.current].type = "BLOCK_QUOTE"
    THEN [ps |-> [ps EXCEPT !.current = ps.nodes[ps.current].parent],
          lineptr |-> lineptr]
  ELSE IF /\ ps.nodes[ps.current].type = "TABLE"
          /\ ps.nodes[ps.current].parent # NULL
          /\ ps.nodes[ps.nodes[ps.current].parent].type = "BLOCK_QUOTE"
    THEN [ps |-> [ps EXCEPT !.current =
                    ps.nodes[ps.nodes[ps.current].parent].parent],
          lineptr |-> lineptr]
  ELSE [ps |-> ps, lineptr |-> lineptr]

\* while ((*end == '\n' || *end == 'r') && end > lineptr) end --
RECURSIVE TableTrimEnd(_, _, _)
TableTrimEnd(b, end, lineptr) ==
  IF (At(b, end) = "\n" \/ At(b, end) = "r") /\ end > lineptr
    THEN TableTrimEnd(b, end - 1, lineptr) ELSE end

\* for (end = ...; end > start && isspace(*end); end --)
RECURSIVE CellTrimEnd(_, _, _)
CellTrimEnd(b, end, start) ==
  IF end > start /\ isspace(At(b, end)) THEN CellTrimEnd(b, end - 1, start)
  ELSE end

\* "Process separator row for alignment": columns afterwards
SeparatorCell(b, cols, col, start0) ==
  LET start == SkipSpace(b, start0)
      end   == CellTrimEnd(b, start + strlen(b, start) - 1, start)
  IN  IF At(b, start) = ":" /\ At(b, end) = ":"
        THEN ColumnPut(cols, col, "TABLE_BODY_CELL_CENTER")
      ELSE IF At(b, end) = ":"
        THEN ColumnPut(cols, col, "TABLE_BODY_CELL_RIGHT")
      ELSE cols

\* The state after mmd_parse_inline returned r
InlineParsed(ps, r) ==
  [ps EXCEPT !.buf = r.buf, !.nodes = r.nodes, !.refs = r.refs,
             !.stop = IF r.lineptr > ps.stop THEN r.lineptr ELSE ps.stop]

\* A cell of a header or body row: the cell is added to row and the text
\* at lineptr is handed to mmd_parse_inline
TableCell(ps, row, lineptr, col) ==
  Bind(LoadAdd(ps, row,
               IF ps.nodes[ps.block].type = "TABLE_HEADER"
                 THEN "TABLE_HEADER_CELL" ELSE ColumnAt(ps.columns, col),
               NoStr),
       LAMBDA ps2 :
         InlineParsed(ps2, mmd_parse_inline(ps2.buf, ps2.nodes, ps2.refs,
                                            NewId(ps), lineptr)))

\* The loop over the cells of a table line: the parser state and col
\* afterwards.  lineptr is NULL once strchr found no further "|"
RECURSIVE TableCells(_, _, _, _)
TableCells(ps, row, lineptr, col) ==
  IF lineptr = NULL \/ At(ps.buf, lineptr) = NUL \/ col >= MaxColumns
    THEN [ps |-> ps, col |-> col]
  ELSE
    Bind(strchr(ps.buf, lineptr + 1, "|"), LAMBDA bar :
    Bind(IF bar # NULL THEN [ps EXCEPT !.buf = Put(ps.buf, bar, NUL)] ELSE ps,
         LAMBDA ps1 :
           TableCells(IF ps.block # NULL
                        THEN TableCell(ps1, row, lineptr, col)
                        ELSE [ps1 EXCEPT !.columns =
                                SeparatorCell(ps1.buf, ps.columns, col,
                                              lineptr)],
                      row, IF bar # NULL THEN bar + 1 ELSE NULL, col + 1)))

\* A faulty loop that adds no cell to a short row
TablePad_none(ps, row, col) == ps

\* while (col < num_columns) { mmd_add(row, columns[col], ...); col ++; }
RECURSIVE TablePad(_, _, _)
TablePad(ps, row, col) ==
  IF col < ps.num_columns
    THEN TablePad(LoadAdd(ps, row, ColumnAt(ps.columns, col), NoStr), row,
                  col + 1)
    ELSE ps

\* A new table and its header are opened; t is the state with the table
\* added and table the new node
TableNew(t, table) ==
  [LoadAdd(t, table, "TABLE_HEADER", NoStr)
     EXCEPT !.current = table, !.block = NewId(t), !.columns = <<>>,
            !.num_columns = 0, !.rows = -1]

\* The start of the table branch: the block of the row
TableOpen(ps) ==
  IF ps.nodes[ps.current].type # "TABLE"
    THEN TableNew(LoadAdd(ps,
                          IF ps.current # 1
                             /\ ps.nodes[ps.current].type # "BLOCK_QUOTE"
                            THEN ps.nodes[ps.current].parent ELSE ps.current,
                          "TABLE", NoStr),
                  NewId(ps))
  ELSE IF ps.rows > 0
    THEN IF ps.rows = 1
           THEN [LoadAdd(ps, ps.current, "TABLE_BODY", NoStr)
                   EXCEPT !.block = NewId(ps)]
           ELSE ps
  ELSE [ps EXCEPT !.block = NULL]

\* The trailing "|" of the line at lp is overwritten: end0 is the last
\* character and end the last one that is neither a line break nor "r"
TableStripEnd(ps, lp, end0, end) ==
  IF end0 > lp /\ end > lp /\ At(ps.buf, end) = "|"
    THEN [ps EXCEPT !.buf = Put(ps.buf, end, NUL)] ELSE ps

\* The end of the table branch: the table is widened or the row is padded
TableClose(ps, row, col) ==
  IF col > ps.num_columns THEN [ps EXCEPT !.num_columns = col]
  ELSE IF ps.block # NULL /\ ps.nodes[ps.block].type # "TABLE_HEADER"
    THEN TablePad(ps, row, col)
  ELSE ps

\* The row of the table branch, from the state ps1 with its block
TableRow(ps1, row, lp) ==
  Bind(TableStripEnd(ps1, lp, lp + strlen(ps1.buf, lp) - 1,
                     TableTrimEnd(ps1.buf, lp + strlen(ps1.buf, lp) - 1, lp)),
       LAMBDA ps3 :
  Bind(TableCells(ps3, row, lp, 0), LAMBDA cells :
  Bind(TableClose(cells.ps, row, cells.col), LAMBDA ps5 :
    [ps5 EXCEPT !.rows = ps5.rows + 1])))

\* The table branch
LoadTable(ps, lineptr) ==
  Bind(TableOpen(ps), LAMBDA ps1 :
    TableRow(IF ps1.block # NULL
               THEN LoadAdd(ps1, ps1.block, "TABLE_ROW", NoStr) ELSE ps1,
             IF ps1.block # NULL THEN NewId(ps1) ELSE NULL,
             IF At(ps.buf, lineptr) = "|" THEN lineptr + 1 ELSE lineptr))

\* A faulty heading type: MMD_TYPE_HEADING_1 + level
HeadingType_offbyone(level) == TypeOrder[TypeIndex("HEADING_1") + level]

\* The type of a heading of a level: MMD_TYPE_HEADING_1 + (level - 1)
HeadingType(level) == TypeOrder[TypeIndex("HEADING_1") + (level - 1)]

\* "Strip trailing # characters": the buffer afterwards
RECURSIVE StripHashes(_, _, _)
StripHashes(b, temp, lineptr) ==
  IF temp > lineptr /\ At(b, temp) = "#"
    THEN StripHashes(Put(b, temp, NUL), temp - 1, lineptr) ELSE b

\* while (isdigit(*temp)) temp ++
RECURSIVE SkipDigits(_, _)
SkipDigits(b, p) == IF isdigit(At(b, p)) THEN SkipDigits(b, p + 1) ELSE p

\* "if (!block || block->type != type) { ... }": the block of the line's type
\* is opened unless it is the current one
LoadOpen(ps, type) ==
  IF ps.block = NULL \/ ps.nodes[ps.block].type # type
    THEN [LoadAdd(ps,
                  IF ps.nodes[ps.current].type = "CODE_BLOCK" THEN 1
                  ELSE ps.current,
                  type, NoStr)
            EXCEPT !.current = IF ps.nodes[ps.current].type = "CODE_BLOCK"
                                 THEN 1 ELSE ps.current,
                   !.block = NewId(ps)]
    ELSE ps

\* The end of an iteration: the block of the line's type is opened and the
\* line is handed to mmd_parse_inline
LoadInline(ps, type, lineptr) ==
  Bind(LoadOpen(ps, type), LAMBDA ps1 :
    InlineParsed(ps1, mmd_parse_inline(ps1.buf, ps1.nodes, ps1.refs, ps1.block,
                                       lineptr)))

\* The "+" branch
LoadPlus(ps) ==
  LET b == ps.block IN
  IF b = NULL THEN ps
  ELSE IF ps.nodes[b].type = "LIST_ITEM"
    THEN [LoadAdd(ps, b, "PARAGRAPH", NoStr) EXCEPT !.block = NewId(ps)]
  ELSE IF ps.nodes[ps.nodes[b].parent].type = "LIST_ITEM"
    THEN [LoadAdd(ps, ps.nodes[b].parent, "PARAGRAPH", NoStr)
            EXCEPT !.block = NewId(ps)]
  ELSE [ps EXCEPT !.block = NULL]

\* A faulty setext branch: the heading stays the active block.
LoadSetext_keepblock(ps, lineptr) ==
  LET ch == At(ps.buf, lineptr)
      p  == SkipSpace(ps.buf, SkipChar(ps.buf, lineptr + 3, ch))
  IN  IF At(ps.buf, p) = NUL
        THEN [ps EXCEPT !.nodes[ps.block].type =
                          IF ch = "=" THEN "HEADING_1" ELSE "HEADING_2"]
        ELSE LoadInline(ps, "PARAGRAPH", p)

\* The setext branch, entered with a paragraph as block and "---" or "==="
LoadSetext(ps, lineptr) ==
  LET ch == At(ps.buf, lineptr)
      p  == SkipSpace(ps.buf, SkipChar(ps.buf, lineptr + 3, ch))
  IN  IF At(ps.buf, p) = NUL
        THEN [ps EXCEPT !.nodes[ps.block].type =
                          IF ch = "=" THEN "HEADING_1" ELSE "HEADING_2",
                        !.block = NULL]
        ELSE LoadInline(ps, "PARAGRAPH", p)

\* The bulleted list branch
LoadBullet(ps, lineptr) ==
  LET p    == SkipSpace(ps.buf, lineptr + 2)
      last == ps.nodes[1].last_child
      ps1  == IF ps.current = 1 /\ last # NULL
                 /\ ps.nodes[last].type = "UNORDERED_LIST"
                THEN [ps EXCEPT !.current = last]
              ELSE IF ps.nodes[ps.current].type # "UNORDERED_LIST"
                THEN [LoadAdd(ps,
                              IF ps.nodes[ps.current].type = "BLOCK_QUOTE"
                                THEN ps.current ELSE 1,
                              "UNORDERED_LIST", NoStr)
                        EXCEPT !.current = NewId(ps)]
              ELSE ps
  IN  LoadInline([ps1 EXCEPT !.block = NULL], "LIST_ITEM", p)

\* The branch of a line that starts with a digit
LoadDigit(ps, lineptr) ==
  LET temp == SkipDigits(ps.buf, lineptr + 1)
      last == ps.nodes[1].last_child
  IN
  IF At(ps.buf, temp) = "." /\ isspace(At(ps.buf, temp + 1))
    THEN LET p   == SkipSpace(ps.buf, temp + 2)
             ps1 == IF ps.current = 1 /\ last # NULL
                       /\ ps.nodes[last].type = "ORDERED_LIST"
                      THEN [ps EXCEPT !.current = last]
                    ELSE IF ps.nodes[ps.current].type # "ORDERED_LIST"
                      THEN [LoadAdd(ps, ps.current, "ORDERED_LIST", NoStr)
                              EXCEPT !.current = NewId(ps)]
                    ELSE ps
         IN  LoadInline([ps1 EXCEPT !.block = NULL], "LIST_ITEM", p)
    ELSE LoadInline(ps, IF ps.block # NULL THEN ps.nodes[ps.block].type
                        ELSE "PARAGRAPH", lineptr)

\* The heading branch
LoadHeading(ps, lineptr) ==
  LET temp == SkipChar(ps.buf, lineptr + 1, "#")
      cur  == IF ps.nodes[ps.current].type # "BLOCK_QUOTE" THEN 1
              ELSE ps.current
  IN
  IF temp - lineptr <= 6
    THEN LET p == SkipSpace(ps.buf, temp)
             b == StripHashes(ps.buf, p + strlen(ps.buf, p) - 1, p)
         IN  LoadInline([ps EXCEPT !.block = NULL, !.buf = b, !.current = cur],
                        HeadingType(temp - lineptr), p)
    ELSE LoadInline([ps EXCEPT !.current = cur], "PARAGRAPH", lineptr)

\* The chain from the "+" test to the end of the iteration
LoadBlock(ps, lineptr) ==
  LET c  == At(ps.buf, lineptr)
      c1 == At(ps.buf, lineptr + 1)
  IN
  IF c = "+" /\ c1 = NUL THEN LoadPlus(ps)
  ELSE IF /\ ps.block # NULL /\ ps.nodes[ps.block].type = "PARAGRAPH"
          /\ (\/ strneq(ps.buf, lineptr, <<"-", "-", "-">>)
              \/ strneq(ps.buf, lineptr, <<"=", "=", "=">>))
    THEN LoadSetext(ps, lineptr)
  ELSE IF c \in {"-", "+", "*"} /\ isspace(c1) THEN LoadBullet(ps, lineptr)
  ELSE IF isdigit(c) THEN LoadDigit(ps, lineptr)
  ELSE IF c = "#" THEN LoadHeading(ps, lineptr)
  ELSE IF ps.block = NULL
    THEN LoadInline(IF lineptr = 1 THEN [ps EXCEPT !.current = 1] ELSE ps,
                    "PARAGRAPH", lineptr)
  ELSE LoadInline(ps, ps.nodes[ps.block].type, lineptr)

\* The table test has chosen: table is its value
LoadPiped(ps, lineptr, table) ==
  IF table THEN LoadTable(ps, lineptr)
  ELSE IF ps.nodes[ps.current].type = "TABLE"
    THEN LoadBlock([ps EXCEPT !.current = ps.nodes[ps.current].parent,
                              !.block = NULL], lineptr)
  ELSE LoadBlock(ps, lineptr)

\* From the blank line test on: mmd_is_table is called for a line with a "|"
\* when current is not a table
LoadAfterQuote(ps, file, lineptr) ==
  IF At(ps.buf, lineptr) = NUL
    THEN [ps EXCEPT !.blank_code =
                      IF ps.nodes[ps.current].type = "CODE_BLOCK" THEN 1 ELSE 0,
                    !.block = NULL]
  ELSE IF strchr(ps.buf, lineptr, "|") = NULL
          \/ ps.nodes[ps.current].type = "TABLE"
    THEN LoadPiped(ps, lineptr, strchr(ps.buf, lineptr, "|") # NULL)
  ELSE Bind(mmd_is_table(file, ps.fpos), LAMBDA t :
         LoadPiped([ps EXCEPT !.fpos = t.fpos, !.peeked = Append(ps.peeked, t.read)],
                   lineptr, t.is_table))

\* From the block quote test on
LoadRest(ps, file, lineptr) ==
  Bind(LoadQuote(ps, lineptr), LAMBDA q : LoadAfterQuote(q.ps, file, q.lineptr))

\* A faulty code text branch: the text starts at lineptr, after the white
\* space of the line.
LoadCodeText_trimmed(ps) ==
  LoadAdd(ps, ps.block, "CODE_TEXT", CStr(ps.buf, SkipSpace(ps.buf, 1)))

\* The branch of a line in an open fenced code block:
\* mmd_add(block, MMD_TYPE_CODE_TEXT, 0, line, NULL)
LoadCodeText(ps) == LoadAdd(ps, ps.block, "CODE_TEXT", CStr(ps.buf, 1))

\* One iteration of the loop of mmdLoadFile, after its fgets
LoadLine(ps, file) ==
  LET b       == ps.buf
      lineptr == SkipSpace(b, 1)
      rule    == SkipRule(b, lineptr + 3, At(b, lineptr))
  IN
  IF /\ lineptr - 1 >= 4 /\ ps.block = NULL
     /\ (ps.current = 1 \/ ps.nodes[ps.current].type = "CODE_BLOCK")
    THEN LoadIndented(ps)
  ELSE IF At(b, lineptr) = Backtick
          /\ (At(b, lineptr + 1) = NUL \/ At(b, lineptr + 1) = Backtick)
    THEN LoadFence(ps)
  ELSE IF ps.block # NULL /\ ps.nodes[ps.block].type = "CODE_BLOCK"
    THEN LoadCodeText(ps)
  ELSE IF strneq(b, lineptr, <<"-", "-", "-">>) /\ ps.nodes[1].first_child = NULL
    THEN LoadMetadata(ps, file)
  ELSE IF /\ ps.block = NULL
          /\ (\/ strneq(b, lineptr, <<"-", "-", "-">>)
              \/ strneq(b, lineptr, <<"*", "*", "*">>)
              \/ strneq(b, lineptr, <<"_", "_", "_">>))
    THEN IF At(b, rule) = NUL
           THEN LoadAdd(ps, ps.current, "THEMATIC_BREAK", NoStr)
           ELSE LoadRest(ps, file, rule)
  ELSE LoadRest(ps, file, lineptr)

\* The loop after end-of-file: pending[j]->url = strdup(reference->name) for
\* every reference that still has pending nodes
RECURSIVE LoadReferences(_, _)
LoadReferences(ns, refs) ==
  IF refs = <<>> THEN ns
  ELSE LoadReferences(Backpatch(ns, Head(refs).pending, Str(Head(refs).name)),
                      Tail(refs))

-----------------------------------------------------------------------------
\* mmdFree.

\* A faulty walk: it climbs to the parent without stopping at the node
\* mmdFree was called on.
mmdFree_next_nostop(ns, node, cur) ==
  IF ns[cur].next_sibling # NULL THEN ns[cur].next_sibling
  ELSE ns[cur].parent

\* "Get the next node" once current has no child left
mmdFree_next(ns, node, cur) ==
  IF ns[cur].next_sibling # NULL THEN ns[cur].next_sibling
  ELSE IF ns[cur].parent = node THEN NULL ELSE ns[cur].parent

\* mmdFree(node) up to the loop: mmd_remove(node); current = node->first_child
FreeStart(node) ==
  /\ pc = "build" /\ fpc = "idle" /\ cpc = "idle"
  /\ node \in 1..Len(nodes)
  /\ nodes' = mmd_remove(nodes, node)
  /\ fnode' = node
  /\ fcur'  = nodes[node].first_child
  /\ fpc'   = "loop"
  /\ UNCHANGED <<freed, uaf, fsteps, cpc, cnode, ccur, call, cfail, parseVars>>

\* One iteration of the loop of mmdFree
FreeStep ==
  /\ fpc = "loop" /\ fcur # NULL
  /\ uaf' = (uaf \/ freed[fcur] > 0)
  /\ IF nodes[fcur].first_child # NULL
       THEN /\ fcur'  = nodes[fcur].first_child
            /\ nodes' = [nodes EXCEPT ![fcur].first_child = NULL]
            /\ UNCHANGED freed
       ELSE /\ fcur'  = mmdFree_next(nodes, fnode, fcur)
            /\ freed' = [freed EXCEPT ![fcur] = @ + 1]
            /\ UNCHANGED nodes
  /\ fsteps' = fsteps + 1
  /\ UNCHANGED <<fpc, fnode, cpc, cnode, ccur, call, cfail, parseVars>>

\* The end of mmdFree: mmd_free(node)
FreeEnd ==
  /\ fpc = "loop" /\ fcur = NULL
  /\ freed' = [freed EXCEPT ![fnode] = @ + 1]
  /\ uaf'   = (uaf \/ freed[fnode] > 0)
  /\ fpc'   = "done"
  /\ UNCHANGED <<nodes, fnode, fcur, fsteps, cpc, cnode, ccur, call, cfail, parseVars>>

-----------------------------------------------------------------------------
\* mmdCopyAllText.

\* A faulty append: the separating space of a flagged node is not written.
CopyAppend_nospace(all, whitespace, text) ==
  (IF all = NoStr THEN "" ELSE all) \o text

\* The buffer after one node's text is appended: the space written for a
\* node whose whitespace flag is set, then the text
CopyAppend(all, whitespace, text) ==
  (IF all = NoStr THEN "" ELSE all) \o (IF whitespace # 0 THEN " " ELSE "") \o text

\* The parent walk of "Find the next logical node"
RECURSIVE CopyClimb(_, _, _)
CopyClimb(ns, node, next) ==
  IF next # NULL /\ next # node /\ mmdGetNextSibling(ns, next) = NULL
    THEN CopyClimb(ns, node, mmdGetParent(ns, next))
    ELSE next

\* "Find the next logical node"
mmdCopyAllText_next(ns, node, cur) ==
  IF mmdGetNextSibling(ns, cur) # NULL THEN mmdGetNextSibling(ns, cur)
  ELSE LET next == CopyClimb(ns, node, mmdGetParent(ns, cur))
       IN  IF next # node THEN mmdGetNextSibling(ns, next) ELSE next

\* mmdCopyAllText(node) up to the loop: current = mmdGetFirstChild(node)
CopyStart(node) ==
  /\ pc = "build" /\ fpc = "idle" /\ cpc = "idle"
  /\ node \in 1..Len(nodes)
  /\ cnode' = node
  /\ ccur'  = mmdGetFirstChild(nodes, node)
  /\ cpc'   = "loop"
  /\ UNCHANGED <<nodes, freed, uaf, fpc, fnode, fcur, fsteps, call, cfail,
                 parseVars>>

\* One iteration of the loop of mmdCopyAllText.  current->text with current
\* NULL is a null pointer dereference: the call does not return ("crash").
\* malloc and realloc may return NULL (ok = FALSE): the call returns NULL.
CopyStep ==
  /\ cpc = "loop" /\ ccur # cnode
  /\ IF ccur = NULL
       THEN /\ cpc' = "crash"
            /\ UNCHANGED <<ccur, call, cfail>>
       ELSE IF nodes[ccur].text # NoStr
         THEN \E ok \in BOOLEAN :
                IF ok
                  THEN /\ call' = CopyAppend(call, nodes[ccur].whitespace,
                                             nodes[ccur].text)
                       /\ ccur' = mmdCopyAllText_next(nodes, cnode, ccur)
                       /\ UNCHANGED <<cpc, cfail>>
                  ELSE /\ call'  = NoStr
                       /\ cfail' = TRUE
                       /\ cpc'   = "done"
                       /\ UNCHANGED ccur
         ELSE /\ ccur' = mmdCopyAllText_next(nodes, cnode, ccur)
              /\ UNCHANGED <<cpc, call, cfail>>
  /\ UNCHANGED <<nodes, freed, uaf, fpc, fnode, fcur, fsteps, cnode, parseVars>>

\* The end of mmdCopyAllText: terminate the buffer, return (all)
CopyEnd ==
  /\ cpc = "loop" /\ ccur = cnode
  /\ cpc' = "done"
  /\ UNCHANGED <<nodes, freed, uaf, fpc, fnode, fcur, fsteps, cnode, ccur, call,
                 cfail, parseVars>>

-----------------------------------------------------------------------------
\* Trees built by mmd_add, for mmdFree and mmdCopyAllText.

\* The text given to the n-th node of a tree built for mmdCopyAllText
Letters == <<"r", "a", "b", "c", "d", "e", "f", "g">>

\* The state after mmd_add(NULL, MMD_TYPE_DOCUMENT, 0, NULL, NULL)
RootOnly == <<NewNode(NULL, NULL, "DOCUMENT", 0, NoStr, NoStr)>>

ParseIdle ==
  /\ input = <<>> /\ fpos = 1 /\ line = <<>> /\ doc = <<>>
  /\ current = 1 /\ block = NULL /\ blank_code = 0
  /\ columns = <<>> /\ num_columns = 0 /\ rows = 0
  /\ stop = 0 /\ peeked = <<>>

InitTree ==
  /\ nodes = RootOnly
  /\ freed = [n \in 1..(MaxFreeNodes + MaxTextNodes) |-> 0]
  /\ uaf = FALSE
  /\ fpc = "idle" /\ fnode = NULL /\ fcur = NULL /\ fsteps = 0
  /\ cpc = "idle" /\ cnode = NULL /\ ccur = NULL /\ call = NoStr
  /\ cfail = FALSE
  /\ ParseIdle
  /\ pc = "build"

\* mmd_add(parent, MMD_TYPE_PARAGRAPH, 0, NULL, NULL) on a tree being built
TreeAdd(parent) ==
  /\ pc = "build" /\ fpc = "idle" /\ cpc = "idle"
  /\ Len(nodes) < MaxFreeNodes
  /\ parent \in 1..Len(nodes)
  /\ nodes' = mmd_add(nodes, parent, "PARAGRAPH", 0, NoStr, NoStr)
  /\ UNCHANGED <<freed, uaf, fpc, fnode, fcur, fsteps, cpc, cnode, ccur, call,
                 cfail, parseVars>>

\* mmd_add of a block (no text) or of a text leaf, flagged or not
TextAdd(parent, hastext, whitespace) ==
  /\ pc = "build" /\ fpc = "idle" /\ cpc = "idle"
  /\ Len(nodes) < MaxTextNodes
  /\ parent \in 1..Len(nodes)
  /\ nodes' = mmd_add(nodes, parent,
                      IF hastext THEN "NORMAL_TEXT" ELSE "PARAGRAPH",
                      whitespace,
                      IF hastext THEN Letters[Len(nodes) + 1] ELSE NoStr,
                      NoStr)
  /\ UNCHANGED <<freed, uaf, fpc, fnode, fcur, fsteps, cpc, cnode, ccur, call,
                 cfail, parseVars>>

NextFree ==
  \/ \E parent \in 1..MaxFreeNodes : TreeAdd(parent)
  \/ \E node \in 1..MaxFreeNodes : FreeStart(node)
  \/ FreeStep
  \/ FreeEnd

SpecFree == InitTree /\ [][NextFree]_vars

NextText ==
  \/ \E parent \in 1..MaxTextNodes, hastext \in BOOLEAN, whitespace \in {0, 1} :
       TextAdd(parent, hastext, whitespace)
  \/ \E node \in 1..MaxTextNodes : CopyStart(node)
  \/ CopyStep
  \/ CopyEnd

SpecText == InitTree /\ [][NextText]_vars

-----------------------------------------------------------------------------
\* The input files.

\* [foo][bar]\n
L_use ==
  <<"[", "f", "o", "o", "]", "[", "b", "a", "r", "]", "\n">>

\* [Foo][BAR]\n
L_useCase ==
  <<"[", "F", "o", "o", "]", "[", "B", "A", "R", "]", "\n">>

\* ![img][bar]\n
L_image ==
  <<"!", "[", "i", "m", "g", "]", "[", "b", "a", "r", "]", "\n">>

\* [bar]: u1\n
L_def1 ==
  <<"[", "b", "a", "r", "]", ":", " ", "u", "1", "\n">>

\* [bar]: u2\n
L_def2 ==
  <<"[", "b", "a", "r", "]", ":", " ", "u", "2", "\n">>

\* [bar]\n
L_bare ==
  <<"[", "b", "a", "r", "]", "\n">>

\* [baz][my ref]\n
L_useWs ==
  <<"[", "b", "a", "z", "]", "[", "m", "y", " ", "r", "e", "f", "]", "\n">>

\* [my ref]: u3\n
L_defWs ==
  <<"[", "m", "y", " ", "r", "e", "f", "]", ":", " ", "u", "3", "\n">>

\* \n
L_blank ==
  <<"\n">>

\* text\n
L_text ==
  <<"t", "e", "x", "t", "\n">>

\* # Title\n
L_h1 ==
  <<"#", " ", "T", "i", "t", "l", "e", "\n">>

\* ## Sub\n
L_h2 ==
  <<"#", "#", " ", "S", "u", "b", "\n">>

\* ###### six\n
L_h6 ==
  <<"#", "#", "#", "#", "#", "#", " ", "s", "i", "x", "\n">>

\* ####### x\n
L_h7 ==
  <<"#", "#", "#", "#", "#", "#", "#", " ", "x", "\n">>

\*     # in\n
L_h1in ==
  <<" ", " ", " ", " ", "#", " ", "i", "n", "\n">>

\* > quote\n
L_quote ==
  <<">", " ", "q", "u", "o", "t", "e", "\n">>

\* (backtick)(backtick)(backtick)\n
L_fence ==
  <<Backtick, Backtick, Backtick, "\n">>

\* [exp](u9)\n
L_explicit ==
  <<"[", "e", "x", "p", "]", "(", "u", "9", ")", "\n">>

\* #Tight, the last line of a file, without a line break
L_h1tight ==
  <<"#", "T", "i", "g", "h", "t">>

\* - item\n
L_item ==
  <<"-", " ", "i", "t", "e", "m", "\n">>

\* The lines of the files that exercise the reference table
RefLines ==
  { L_use, L_useCase, L_image, L_def1, L_def2, L_bare, L_useWs, L_defWs,
    L_explicit, L_blank, L_text }

\* The lines of the files that exercise the headings
HeadLines ==
  { L_h1, L_h2, L_h6, L_h7, L_h1tight, L_h1in, L_quote, L_fence, L_item,
    L_blank, L_text }

\* The files of at most MaxLines lines drawn from lines; only the last line
\* of a file may lack its line break
Files(lines) ==
  { f \in UNION {[1..n -> lines] : n \in 0..MaxLines} :
      \A i \in 1..Len(f) : i < Len(f) => f[i][Len(f[i])] = "\n" }

\* What the uninitialized line buffer may hold
Garbage == {NUL, "x"}

\* The state at the start of the loop of mmdLoadFile on a file of files
InitLoad(files) ==
  /\ nodes = RootOnly
  /\ freed = [n \in 1..(MaxFreeNodes + MaxTextNodes) |-> 0]
  /\ uaf = FALSE
  /\ fpc = "idle" /\ fnode = NULL /\ fcur = NULL /\ fsteps = 0
  /\ cpc = "idle" /\ cnode = NULL /\ ccur = NULL /\ call = NoStr
  /\ cfail = FALSE
  /\ input \in files
  /\ fpos = 1
  /\ \E g \in Garbage : line = [i \in 1..LineSize |-> g]
  /\ doc = <<>>
  /\ current = 1 /\ block = NULL /\ blank_code = 0
  /\ columns = <<>> /\ num_columns = 0 /\ rows = 0
  /\ stop = 0 /\ peeked = <<>>
  /\ pc = "parse"

\* The variables of mmdLoadFile at the end of an iteration.  A tokenizer
\* that stopped beyond the line buffer has read past the end of the array:
\* the byte there was a terminator and the loop goes on, or the read faults
\* or finds no terminator and mmdLoadFile does not return ("crash")
LoadStore(ps) ==
  /\ nodes' = ps.nodes /\ doc' = ps.refs /\ line' = ps.buf
  /\ current' = ps.current /\ block' = ps.block
  /\ blank_code' = ps.blank_code /\ columns' = ps.columns
  /\ num_columns' = ps.num_columns /\ rows' = ps.rows
  /\ fpos' = ps.fpos
  /\ stop' = ps.stop /\ peeked' = ps.peeked
  /\ pc' \in IF ps.stop > LineSize THEN {"parse", "crash"} ELSE {"parse"}

\* fgets and one iteration of the loop of mmdLoadFile
ReadLine ==
  /\ pc = "parse" /\ fpos <= Len(input)
  /\ LoadStore(LoadLine([ nodes |-> nodes, refs |-> doc,
                          buf |-> fgets(line, input[fpos]),
                          current |-> current, block |-> block,
                          blank_code |-> blank_code, columns |-> columns,
                          num_columns |-> num_columns, rows |-> rows,
                          fpos |-> fpos + 1, stop |-> 0, peeked |-> <<>> ],
                        input))
  /\ UNCHANGED <<freed, uaf, fpc, fnode, fcur, fsteps, cpc, cnode, ccur, call,
                 cfail, input>>

\* The end of mmdLoadFile: fgets returns NULL, the pending nodes of the
\* references get their name as url and the references are freed
EndOfFile ==
  /\ pc = "parse" /\ fpos > Len(input)
  /\ nodes' = LoadReferences(nodes, doc)
  /\ doc' = <<>>
  /\ pc' = "done"
  /\ UNCHANGED <<freed, uaf, fpc, fnode, fcur, fsteps, cpc, cnode, ccur, call,
                 cfail, input, fpos, line, current, block, blank_code, columns,
                 num_columns, rows, stop, peeked>>

Next == ReadLine \/ EndOfFile

\* mmdLoadFile on the files of reference lines
Spec == InitLoad(Files(RefLines)) /\ [][Next]_vars

\* mmdLoadFile on the files of heading lines
SpecHead == InitLoad(Files(HeadLines)) /\ [][Next]_vars

-----------------------------------------------------------------------------
\* How a line of the file reads.

\* The index of the first c in the line l at or after from, 0 when none
RECURSIVE FirstIdx(_, _, _)
FirstIdx(l, c, from) ==
  IF from > Len(l) THEN 0
  ELSE IF l[from] = c THEN from
  ELSE FirstIdx(l, c, from + 1)

\* Where the bracketed text of the line l opens: after a leading "!"
TextOpen(l) == IF Len(l) > 0 /\ l[1] = "!" THEN 2 ELSE 1

\* Where the bracketed text of the line l closes
TextClose(l) == FirstIdx(l, "]", TextOpen(l))

\* The line l without its line break
Chomp(l) == IF Len(l) > 0 /\ l[Len(l)] = "\n" THEN SubSeq(l, 1, Len(l) - 1) ELSE l

\* The line l reads [text][name] or ![text][name]
IsUse(l) ==
  LET c == Chomp(l) o == TextOpen(l) e == TextClose(l) IN
  /\ Len(c) >= o + 4 /\ c[o] = "[" /\ e > o + 1
  /\ e + 2 < Len(c) /\ c[e + 1] = "["
  /\ FirstIdx(c, "]", e + 2) = Len(c)

\* The text and the name written on a line that reads [text][name]
UseText(l) == SubSeq(l, TextOpen(l) + 1, TextClose(l) - 1)
UseName(l) == SubSeq(Chomp(l), TextClose(l) + 2, Len(Chomp(l)) - 1)

\* The line l reads [name]: url
IsDef(l) ==
  LET c == Chomp(l) e == FirstIdx(l, "]", 1) IN
  /\ Len(c) >= 6 /\ c[1] = "[" /\ e > 2 /\ e + 2 < Len(c)
  /\ c[e + 1] = ":" /\ c[e + 2] = " "
  /\ \A i \in (e + 3)..Len(c) : c[i] # " "

\* The name and the url written on a line that reads [name]: url
DefName(l) == SubSeq(l, 2, FirstIdx(l, "]", 1) - 1)
DefUrl(l)  == SubSeq(Chomp(l), FirstIdx(l, "]", 1) + 3, Len(Chomp(l)))

\* The line l reads [text] and nothing else
IsBare(l) ==
  LET c == Chomp(l) IN
  Len(c) >= 3 /\ c[1] = "[" /\ FirstIdx(c, "]", 1) = Len(c)

\* The text written on a line that reads [text]
BareText(l) == SubSeq(l, 2, Len(Chomp(l)) - 1)

\* Two names written in the file are the same name: equal but for the case
SameName(a, b) ==
  Len(a) = Len(b) /\ \A i \in 1..Len(a) : tolower(a[i]) = tolower(b[i])

\* The lines of the file that define the name
DefsOf(name) ==
  {j \in 1..Len(input) : IsDef(input[j]) /\ SameName(DefName(input[j]), name)}

\* The link and image nodes of the tree with the text
LinksWithText(text) ==
  {n \in 1..Len(nodes) : /\ nodes[n].type \in {"LINKED_TEXT", "IMAGE"}
                         /\ nodes[n].text = Str(text)}

\* The next line of the file, which ReadLine is about to process
AtLine == pc = "parse" /\ fpos <= Len(input)

-----------------------------------------------------------------------------
\* C2: when the file has been loaded, the node of a reference-style link or
\* image [text][name] whose name has exactly one definition [name]: url in
\* the file, before or after it and whatever the case of the letters,
\* carries the url of that definition.
C2_ResolvedByDefinition ==
  pc = "done" =>
    \A i \in 1..Len(input) :
      (IsUse(input[i]) /\ Cardinality(DefsOf(UseName(input[i]))) = 1) =>
        LET j == CHOOSE j \in DefsOf(UseName(input[i])) : TRUE IN
        /\ LinksWithText(UseText(input[i])) # {}
        /\ \A n \in LinksWithText(UseText(input[i])) :
             nodes[n].url = Str(DefUrl(input[j]))

\* C3: when the file has been loaded, the node of a reference-style link
\* whose name has no definition in the file carries as url the name as it
\* is written in a link of the file that uses that name.
C3_FallbackToName ==
  pc = "done" =>
    \A i \in 1..Len(input) :
      (IsUse(input[i]) /\ DefsOf(UseName(input[i])) = {}) =>
        \A n \in LinksWithText(UseText(input[i])) :
          \E k \in 1..Len(input) :
            /\ IsUse(input[k])
            /\ SameName(UseName(input[k]), UseName(input[i]))
            /\ nodes[n].url = Str(UseName(input[k]))

\* C4: once a line [name]: url has been processed, the reference table
\* holds that url under the name, also when an earlier line defined the
\* name with another url.
C4_LaterDefinitionWins ==
  [][(AtLine /\ IsDef(input[fpos])) =>
       LET ref == mmd_ref_find(doc', DefName(input[fpos])) IN
       ref # NULL /\ doc'[ref].url = Str(DefUrl(input[fpos]))]_vars

\* C4: once a line [name]: url has been processed, the reference table
\* holds under the name the url of the first line of the file that defines
\* the name: a definition of a name that has a url already is ignored.
C4_FirstDefinitionWins ==
  [][(AtLine /\ IsDef(input[fpos])) =>
       LET ref   == mmd_ref_find(doc', DefName(input[fpos]))
           first == CHOOSE j \in DefsOf(DefName(input[fpos])) :
                      \A k \in DefsOf(DefName(input[fpos])) : j <= k
       IN  ref # NULL /\ doc'[ref].url = Str(DefUrl(input[first]))]_vars

\* Two definitions of bar with different urls, then a link that uses bar:
\* the link has the url of the first definition.
C4_Witness ==
  /\ pc = "done" /\ input = <<L_def1, L_def2, L_use>>
  /\ \E n \in 1..Len(nodes) :
       /\ nodes[n].type = "LINKED_TEXT" /\ nodes[n].text = "foo"
       /\ nodes[n].url = "u1"

\* C5: processing a line that holds a reference definition and nothing else
\* adds no node to the tree.
C5_DefinitionAddsNoNode ==
  [][(AtLine /\ IsDef(input[fpos])) => Len(nodes') = Len(nodes)]_vars

\* C6: when the file has been loaded, the node of a bare [text] whose text,
\* taken as a name, has exactly one definition in the file carries the url
\* of that definition.
C6_BareLinkLookedUp ==
  pc = "done" =>
    \A i \in 1..Len(input) :
      (IsBare(input[i]) /\ Cardinality(DefsOf(BareText(input[i]))) = 1) =>
        LET j == CHOOSE j \in DefsOf(BareText(input[i])) : TRUE IN
        \A n \in LinksWithText(BareText(input[i])) :
          nodes[n].url = Str(DefUrl(input[j]))

\* The index of the first character of the line l at or after p that is not
\* white space, Len(l) + 1 when none
RECURSIVE FirstNonSpace(_, _)
FirstNonSpace(l, p) ==
  IF p > Len(l) \/ ~isspace(l[p]) THEN p ELSE FirstNonSpace(l, p + 1)

\* The length of the run of "#" of the line l that starts at p
RECURSIVE HashRun(_, _)
HashRun(l, p) ==
  IF p > Len(l) \/ l[p] # "#" THEN 0 ELSE 1 + HashRun(l, p + 1)

\* The heading types by level
HeadingNames ==
  <<"HEADING_1", "HEADING_2", "HEADING_3", "HEADING_4", "HEADING_5",
    "HEADING_6">>

\* The next line begins, after its white space, with "#" and is not taken by
\* a rule that comes before the heading rule: it is not a line of indented
\* code, not a line of an open fenced code block and not a table row
ReachesHeading ==
  LET l == input[fpos]
      p == FirstNonSpace(l, 1)
  IN  /\ p <= Len(l) /\ l[p] = "#"
      /\ ~(/\ p - 1 >= 4 /\ block = NULL
           /\ (current = 1 \/ nodes[current].type = "CODE_BLOCK"))
      /\ ~(block # NULL /\ nodes[block].type = "CODE_BLOCK")
      /\ FirstIdx(l, "|", 1) = 0

\* C10: a line that begins, after its white space, with a run of n "#" and
\* reaches the heading rule adds, for n <= 6, one heading node of level n,
\* which becomes the active block whatever the block before was, and the
\* other nodes the line adds are inline nodes that are children of that
\* heading; for "# Title" the heading has level 1 and one child, a
\* plain-text node with the text "Title".  For n > 6 the line adds no heading
\* node and its inline nodes go to a paragraph, the active block.
C10_HeadingLevel ==
  [][(AtLine /\ ReachesHeading) =>
       LET l == input[fpos]
           n == HashRun(l, FirstNonSpace(l, 1))
           h == Len(nodes) + 1
           added == (Len(nodes) + 1)..Len(nodes')
       IN  /\ \A k \in 1..Len(nodes) : nodes'[k].type = nodes[k].type
           /\ block' # NULL
           /\ IF n <= 6
                THEN /\ Len(nodes') >= h
                     /\ nodes'[h].type = HeadingNames[n]
                     /\ block' = h
                     /\ nodes'[h].parent = current'
                     /\ \A k \in added \ {h} :
                          /\ nodes'[k].parent = h
                          /\ TypeIndex(nodes'[k].type) >= TypeIndex("NORMAL_TEXT")
                     /\ l = L_h1 =>
                          /\ Len(nodes') = h + 1
                          /\ nodes'[h + 1].type = "NORMAL_TEXT"
                          /\ nodes'[h + 1].text = "Title"
                ELSE /\ nodes'[block'].type = "PARAGRAPH"
                     /\ \A k \in added :
                          /\ nodes'[k].type \notin
                               {HeadingNames[i] : i \in 1..6}
                          /\ k # block' =>
                               /\ nodes'[k].parent = block'
                               /\ TypeIndex(nodes'[k].type)
                                    >= TypeIndex("NORMAL_TEXT")]_vars

\* A paragraph, then "# Title", then a line of seven "#": the file is loaded
\* with a heading of level 1 whose sole child is the text "Title", and the
\* seven "#" are text of a paragraph.
C10_Witness ==
  /\ pc = "done" /\ input = <<L_text, L_h1, L_h7>>
  /\ \E h \in 1..Len(nodes) :
       /\ nodes[h].type = "HEADING_1"
       /\ nodes[h].first_child # NULL
       /\ nodes[h].first_child = nodes[h].last_child
       /\ nodes[nodes[h].first_child].text = "Title"
  /\ \E t \in 1..Len(nodes) :
       /\ nodes[t].text = "#######"
       /\ nodes[nodes[t].parent].type = "PARAGRAPH"

-----------------------------------------------------------------------------
\* Helpers of the properties.

\* n and its ancestors, by the parent pointers
RECURSIVE AncestorsOrSelf(_, _)
AncestorsOrSelf(ns, n) ==
  IF n = NULL THEN {} ELSE {n} \cup AncestorsOrSelf(ns, ns[n].parent)

\* The subtree rooted at node (mmdFree leaves the parent pointers below node
\* as they were)
Subtree(ns, node) ==
  {n \in 1..Len(ns) : n = node \/ node \in AncestorsOrSelf(ns, ns[n].parent)}

\* The nodes below n in document order: a node, its children, its next sibling
RECURSIVE DocOrderFrom(_, _)
DocOrderFrom(ns, n) ==
  IF n = NULL THEN <<>>
  ELSE <<n>> \o DocOrderFrom(ns, ns[n].first_child)
             \o DocOrderFrom(ns, ns[n].next_sibling)

Descendants(ns, node) == DocOrderFrom(ns, ns[node].first_child)

WithText(ns, seq) == SelectSeq(seq, LAMBDA n : ns[n].text # NoStr)

\* The texts of the nodes of seq, a space before each flagged node; with
\* skipfirst no space before the first
RECURSIVE Joined(_, _, _)
Joined(ns, seq, skipfirst) ==
  IF seq = <<>> THEN ""
  ELSE (IF ns[Head(seq)].whitespace # 0 /\ ~skipfirst THEN " " ELSE "")
       \o ns[Head(seq)].text \o Joined(ns, Tail(seq), FALSE)

-----------------------------------------------------------------------------
\* C1: mmdFree(node) ends after at most two iterations per node below node,
\* and when it has ended free() was called exactly once on every node of the
\* subtree of node, node included, and on no other node; no node is freed
\* twice and no field of a freed node is read or written.
C1_FreeExactlyOnce ==
  /\ ~uaf
  /\ \A n \in 1..Len(nodes) : freed[n] <= 1
  /\ fpc # "idle" => fsteps <= 2 * (Cardinality(Subtree(nodes, fnode)) - 1)
  /\ fpc = "done" =>
       \A n \in 1..Len(nodes) :
         freed[n] = IF n \in Subtree(nodes, fnode) THEN 1 ELSE 0

\* A subtree with a grandchild and two children, not the whole tree, is freed
C1_Witness ==
  /\ fpc = "done"
  /\ fnode # 1
  /\ \E a, b, c \in Subtree(nodes, fnode) :
       /\ a # b /\ nodes[a].parent = fnode /\ nodes[b].parent = fnode
       /\ nodes[c].parent = a

\* C7 as claimed: the result is the text of every descendant, at any depth,
\* in document order (stated for trees with no whitespace flag set).
C7_AllDescendants ==
  ( /\ cpc = "done" /\ ~cfail
    /\ \A n \in 1..Len(nodes) : nodes[n].whitespace = 0
    /\ WithText(nodes, Descendants(nodes, cnode)) # <<>> )
  => call = Joined(nodes, WithText(nodes, Descendants(nodes, cnode)), FALSE)

\* C8 as claimed: one space before each flagged text node except the very
\* first text node (stated for nodes all of whose descendants are children).
C8_NoSpaceBeforeFirst ==
  ( /\ cpc = "done" /\ ~cfail
    /\ Descendants(nodes, cnode) = Children(nodes, cnode)
    /\ WithText(nodes, Children(nodes, cnode)) # <<>> )
  => call = Joined(nodes, WithText(nodes, Children(nodes, cnode)), TRUE)

\* C8 amended: the result holds, for each text-carrying node it collects (the
\* children of node, in order), one space if the node's whitespace flag is set,
\* the very first included, and then the node's text; nothing else.
C8_SpaceBeforeFlagged ==
  (cpc = "done" /\ ~cfail)
  => call = IF WithText(nodes, Children(nodes, cnode)) = <<>> THEN NoStr
            ELSE Joined(nodes, WithText(nodes, Children(nodes, cnode)), FALSE)

\* Two text children, the first flagged and the second not, were collected
C8_Witness ==
  /\ cpc = "done" /\ ~cfail
  /\ LET kids == WithText(nodes, Children(nodes, cnode))
     IN  /\ Len(kids) >= 2
         /\ nodes[kids[1]].whitespace = 1
         /\ nodes[kids[2]].whitespace = 0
         /\ call = " " \o nodes[kids[1]].text \o nodes[kids[2]].text

\* C9 as claimed: on a node none of whose descendants carries text the call
\* returns, and returns the empty string, not the NULL of a failed allocation.
C9_EmptyResult ==
  ( /\ cpc \in {"crash", "done"}
    /\ WithText(nodes, Descendants(nodes, cnode)) = <<>> )
  => cpc = "done" /\ call = ""

-----------------------------------------------------------------------------
\* Setext headings.

\* Setext\n
L_setext ==
  <<"S", "e", "t", "e", "x", "t", "\n">>

\* ======\n
L_eq ==
  <<"=", "=", "=", "=", "=", "=", "\n">>

\* ---\n
L_dash ==
  <<"-", "-", "-", "\n">>

\* === x\n
L_eqx ==
  <<"=", "=", "=", " ", "x", "\n">>

\* ==\n
L_eq2 ==
  <<"=", "=", "\n">>

\* The lines of the files that exercise the setext headings
SetextLines ==
  { L_setext, L_eq, L_dash, L_eqx, L_eq2, L_quote, L_item, L_blank, L_text }

\* mmdLoadFile on the files of setext lines
SpecSetext == InitLoad(Files(SetextLines)) /\ [][Next]_vars

\* The line l consists of three or more ch and nothing else
IsRuleOf(l, ch) ==
  Len(Chomp(l)) >= 3 /\ \A i \in 1..Len(Chomp(l)) : l[i] = ch

\* C11: with a paragraph as the active block, a line that consists only of
\* three or more "=" (of three or more "-") turns that paragraph node, in
\* place, into a heading of level 1 (of level 2): no node is added or
\* removed, the children and every other field of every node stay as they
\* are, and no block is active afterwards, so that a text line that follows
\* opens a new paragraph.
C11_SetextRetypes ==
  [][/\ (/\ AtLine /\ block # NULL /\ nodes[block].type = "PARAGRAPH"
         /\ (IsRuleOf(input[fpos], "=") \/ IsRuleOf(input[fpos], "-")))
        => /\ nodes' = [nodes EXCEPT ![block].type =
                          IF IsRuleOf(input[fpos], "=") THEN "HEADING_1"
                          ELSE "HEADING_2"]
           /\ block' = NULL
     /\ (AtLine /\ block = NULL /\ input[fpos] = L_text)
        => /\ block' = Len(nodes) + 1
           /\ nodes'[block'].type = "PARAGRAPH"
    ]_vars

\* "Setext", "======" and "text" were read: the paragraph of the first line
\* is a heading of level 1 that kept its text, the third line has a
\* paragraph of its own
C11_Witness ==
  /\ pc = "done" /\ input = <<L_setext, L_eq, L_text>>
  /\ Len(nodes) = 5
  /\ nodes[2].type = "HEADING_1" /\ nodes[2].parent = 1
  /\ nodes[3].parent = 2 /\ nodes[3].text = "Setext"
  /\ nodes[4].type = "PARAGRAPH" /\ nodes[4].parent = 1
  /\ nodes[5].parent = 4 /\ nodes[5].text = "text"

-----------------------------------------------------------------------------
\* Tables.

\* | A | B |\n
L_thead ==
  <<"|", " ", "A", " ", "|", " ", "B", " ", "|", "\n">>

\* | A | B |\r\n
L_theadCR ==
  <<"|", " ", "A", " ", "|", " ", "B", " ", "|", "\r", "\n">>

\* |---|:-:|\n
L_tsep ==
  <<"|", "-", "-", "-", "|", ":", "-", ":", "|", "\n">>

\* |-:|:-|\n
L_tsepR ==
  <<"|", "-", ":", "|", ":", "-", "|", "\n">>

\* | 1 | 2 |\n
L_trow ==
  <<"|", " ", "1", " ", "|", " ", "2", " ", "|", "\n">>

\* The lines that open a table, the lines that follow them first, and the
\* lines after these
TableHeads == { L_thead, L_theadCR }
TableSeps  == { L_tsep, L_tsepR }
TableBodyLines == { L_trow, L_tsep, L_blank, L_text }

\* What a file may hold before its table
TableLeads == { <<>>, <<L_text>>, <<L_trow>> }

\* The files with a table: a header line, a separator line and at most
\* MaxRows further lines
TableFiles ==
  { lead \o <<h, s>> \o r :
      lead \in TableLeads, h \in TableHeads, s \in TableSeps,
      r \in UNION {[1..n -> TableBodyLines] : n \in 0..MaxRows} }

\* mmdLoadFile on the files with a table
SpecTable == InitLoad(TableFiles) /\ [][Next]_vars

\* The line l without its line break, "\n" or "\r\n"
StripBreak(l) ==
  IF Len(Chomp(l)) > 0 /\ Chomp(l)[Len(Chomp(l))] = "\r"
    THEN SubSeq(l, 1, Len(Chomp(l)) - 1) ELSE Chomp(l)

\* The characters cs cut at every "|"
RECURSIVE SplitBar(_)
SplitBar(cs) ==
  IF FirstIdx(cs, "|", 1) = 0 THEN <<cs>>
  ELSE <<SubSeq(cs, 1, FirstIdx(cs, "|", 1) - 1)>>
         \o SplitBar(SubSeq(cs, FirstIdx(cs, "|", 1) + 1, Len(cs)))

\* The characters cs without a leading and without a trailing "|"
StripBars(cs) ==
  SubSeq(cs, IF Len(cs) > 0 /\ cs[1] = "|" THEN 2 ELSE 1,
         IF Len(cs) > 1 /\ cs[Len(cs)] = "|" THEN Len(cs) - 1 ELSE Len(cs))

\* The cells written on the table line l
CellsOf(l) == SplitBar(StripBars(StripBreak(l)))

\* The characters cs without the spaces around them
RECURSIVE TrimSpaces(_)
TrimSpaces(cs) ==
  IF cs # <<>> /\ cs[1] = " " THEN TrimSpaces(Tail(cs))
  ELSE IF cs # <<>> /\ cs[Len(cs)] = " "
    THEN TrimSpaces(SubSeq(cs, 1, Len(cs) - 1))
  ELSE cs

\* The alignment the separator line l gives to column j (from 1): ":-:" is
\* center, "-:" is right, every other cell and every further column left
AlignOf(l, j) ==
  IF j > Len(CellsOf(l)) \/ TrimSpaces(CellsOf(l)[j]) = <<>>
    THEN "TABLE_BODY_CELL_LEFT"
  ELSE IF TrimSpaces(CellsOf(l)[j])[Len(TrimSpaces(CellsOf(l)[j]))] # ":"
    THEN "TABLE_BODY_CELL_LEFT"
  ELSE IF TrimSpaces(CellsOf(l)[j])[1] = ":" THEN "TABLE_BODY_CELL_CENTER"
  ELSE "TABLE_BODY_CELL_RIGHT"

\* The line l holds a "|"
HasPipe(l) == FirstIdx(l, "|", 1) # 0

\* The line l is a separator line: "|", "-", ":" and spaces, with a "-"
IsSeparatorLine(l) ==
  /\ HasPipe(l) /\ FirstIdx(l, "-", 1) # 0
  /\ \A i \in 1..Len(StripBreak(l)) : l[i] \in {"|", "-", ":", " "}

\* The file f is a header line, a separator line and one or more lines with
\* a "|"
IsTableFile(f) ==
  /\ Len(f) >= 3
  /\ HasPipe(f[1]) /\ ~IsSeparatorLine(f[1])
  /\ IsSeparatorLine(f[2])
  /\ \A i \in 3..Len(f) : HasPipe(f[i])

\* The children of node all have the type
AllOfType(node, type) ==
  \A i \in 1..Len(Children(nodes, node)) :
    nodes[Children(nodes, node)[i]].type = type

\* The document is one table: a header and a body
OneTable ==
  /\ Len(Children(nodes, 1)) = 1 /\ AllOfType(1, "TABLE")
  /\ Len(Children(nodes, nodes[1].first_child)) = 2
  /\ nodes[Children(nodes, nodes[1].first_child)[1]].type = "TABLE_HEADER"
  /\ nodes[Children(nodes, nodes[1].first_child)[2]].type = "TABLE_BODY"

\* The header and the body of the one table
TheHeader == Children(nodes, nodes[1].first_child)[1]
TheBody   == Children(nodes, nodes[1].first_child)[2]

\* C12: a header line with "|", a separator line and k >= 1 lines with "|"
\* give one table whose children are, in this order, one header with one row
\* that has one header cell per column of the header line, and one body with
\* k rows; the separator line gives no row; the type of every body cell is
\* the alignment the separator line gives to its column.
C12_TableShape ==
  (pc = "done" /\ IsTableFile(input)) =>
    /\ OneTable
    /\ Len(Children(nodes, TheHeader)) = 1
    /\ AllOfType(TheHeader, "TABLE_ROW")
    /\ Len(Children(nodes, nodes[TheHeader].first_child))
         = Len(CellsOf(input[1]))
    /\ AllOfType(nodes[TheHeader].first_child, "TABLE_HEADER_CELL")
    /\ Len(Children(nodes, TheBody)) = Len(input) - 2
    /\ AllOfType(TheBody, "TABLE_ROW")
    /\ \A i \in 1..Len(Children(nodes, TheBody)) :
         \A j \in 1..Len(Children(nodes, Children(nodes, TheBody)[i])) :
           nodes[Children(nodes, Children(nodes, TheBody)[i])[j]].type
             = AlignOf(input[2], j)

-----------------------------------------------------------------------------
\* Inline spans and links.

\* **bold** and *em* and ~~gone~~ and (backtick)code(backtick)\n
L_spans ==
  <<"*", "*", "b", "o", "l", "d", "*", "*", " ", "a", "n", "d", " ",
    "*", "e", "m", "*", " ", "a", "n", "d", " ",
    "~", "~", "g", "o", "n", "e", "~", "~", " ", "a", "n", "d", " ",
    Backtick, "c", "o", "d", "e", Backtick, "\n">>

\* **two words**\n
L_two ==
  <<"*", "*", "t", "w", "o", " ", "w", "o", "r", "d", "s", "*", "*", "\n">>

\* *oops\n
L_em ==
  <<"*", "o", "o", "p", "s", "\n">>

\* **oops\n
L_strong ==
  <<"*", "*", "o", "o", "p", "s", "\n">>

\* ~~oops\n
L_strike ==
  <<"~", "~", "o", "o", "p", "s", "\n">>

\* (backtick)oops\n
L_code ==
  <<Backtick, "o", "o", "p", "s", "\n">>

\* [oops\n
L_link ==
  <<"[", "o", "o", "p", "s", "\n">>

\* [t](u\n
L_url ==
  <<"[", "t", "]", "(", "u", "\n">>

\* [t][n\n
L_ref ==
  <<"[", "t", "]", "[", "n", "\n">>

\* The lines of the files that exercise the inline tokenizer
InlineLines ==
  { L_spans, L_two, L_em, L_strong, L_strike, L_code, L_link, L_url, L_ref }

\* mmdLoadFile on the files of inline lines
SpecInline == InitLoad(Files(InlineLines)) /\ [][Next]_vars

\* The node n is an inline node
IsInlineNode(n) == TypeIndex(n.type) >= TypeIndex("NORMAL_TEXT")

\* Type, whitespace flag and text of the inline nodes that ns2 has and ns
\* has not, in the order in which they were added
InlineAdded(ns, ns2) ==
  [k \in 1..Len(SelectSeq(SubSeq(ns2, Len(ns) + 1, Len(ns2)), IsInlineNode)) |->
     << SelectSeq(SubSeq(ns2, Len(ns) + 1, Len(ns2)), IsInlineNode)[k].type,
        SelectSeq(SubSeq(ns2, Len(ns) + 1, Len(ns2)), IsInlineNode)[k].whitespace,
        SelectSeq(SubSeq(ns2, Len(ns) + 1, Len(ns2)), IsInlineNode)[k].text >>]

\* Type and text of these nodes
InlineAddedText(ns, ns2) ==
  [k \in 1..Len(InlineAdded(ns, ns2)) |->
     <<InlineAdded(ns, ns2)[k][1], InlineAdded(ns, ns2)[k][3]>>]

\* The whitespace flag of the first node of the next line: set when the
\* block that takes the line has a child already
FirstFlag == IF block # NULL /\ nodes[block].last_child # NULL THEN 1 ELSE 0

SpanTypes ==
  { "EMPHASIZED_TEXT", "STRONG_TEXT", "STRUCK_TEXT", "CODE_TEXT",
    "LINKED_TEXT" }

\* C14: a line with a delimiter of emphasis, strong, strike, code or link
\* that is never closed adds no node of a span's type, the text stays plain
\* text with its delimiter; the line "*oops" adds one plain-text node with the
\* text "*oops".
C14_UnclosedIsPlain ==
  [][(AtLine /\ input[fpos] \in {L_em, L_strong, L_strike, L_code, L_link}) =>
       /\ \A k \in (Len(nodes) + 1)..Len(nodes') :
            nodes'[k].type \notin SpanTypes
       /\ input[fpos] = L_em =>
            InlineAddedText(nodes, nodes') = << <<"NORMAL_TEXT", "*oops">> >>
    ]_vars

\* C15: on every file mmdLoadFile terminates: until it has returned it is at
\* the head of its loop, where fgets returns the next line (ReadLine) or the
\* end of the file (EndOfFile), so no iteration and no call of the tokenizer
\* fails to finish; every line has been read when it returns, and the tree
\* has the document node as its single root.
C15_ParseTerminates ==
  /\ pc = "done" \/ pc = "parse"
  /\ pc = "done" => fpos = Len(input) + 1
  /\ nodes[1].type = "DOCUMENT" /\ nodes[1].parent = NULL
  /\ \A n \in 2..Len(nodes) : nodes[n].parent \in 1..(n - 1)

\* C16: the tokenizer and the link parser never move past the terminator of
\* the line, also when the line ends inside "[text](url" or "[text][name":
\* the tokenizer stops no further than the terminator, which follows the
\* last character of the line, and no node gets text from behind it, so the
\* text of a node that an iteration adds from its one line is never longer
\* than the line.
C16_StopsAtTerminator ==
  [][AtLine =>
       /\ stop' <= Len(input[fpos]) + 1
       /\ fpos' = fpos + 1 =>
            \A k \in (Len(nodes) + 1)..Len(nodes') :
              nodes'[k].text # NoStr =>
                Len(nodes'[k].text) <= Len(input[fpos])
    ]_vars

-----------------------------------------------------------------------------
\* Trees under mmd_add and mmd_remove.

\* mmd_remove(node) on a tree being built
TreeRemove(node) ==
  /\ pc = "build" /\ fpc = "idle" /\ cpc = "idle"
  /\ node \in 1..Len(nodes)
  /\ nodes' = mmd_remove(nodes, node)
  /\ UNCHANGED <<freed, uaf, fpc, fnode, fcur, fsteps, cpc, cnode, ccur, call,
                 cfail, parseVars>>

NextTree ==
  \/ \E parent \in 1..MaxFreeNodes : TreeAdd(parent)
  \/ \E node \in 1..MaxFreeNodes : TreeRemove(node)

SpecTree == InitTree /\ [][NextTree]_vars

\* At most fuel nodes of the chain of next_sibling from n on
RECURSIVE ChainNext(_, _, _)
ChainNext(ns, n, fuel) ==
  IF n = NULL \/ fuel = 0 THEN <<>>
  ELSE <<n>> \o ChainNext(ns, ns[n].next_sibling, fuel - 1)

\* At most fuel nodes of the chain of prev_sibling from n back, first to last
RECURSIVE ChainPrev(_, _, _)
ChainPrev(ns, n, fuel) ==
  IF n = NULL \/ fuel = 0 THEN <<>>
  ELSE Append(ChainPrev(ns, ns[n].prev_sibling, fuel - 1), n)

\* The children of p by the forward chain
Kids(ns, p) == ChainNext(ns, ns[p].first_child, Len(ns))

\* The number of parent links from n up to a node without parent, at most fuel
RECURSIVE Height(_, _, _)
Height(ns, n, fuel) ==
  IF ns[n].parent = NULL \/ fuel = 0 THEN 0
  ELSE 1 + Height(ns, ns[n].parent, fuel - 1)

\* The sequence cs without its element d
Without(cs, d) == SelectSeq(cs, LAMBDA c : c # d)

\* The links of the store ns are consistent: the chain of every node's
\* children reads the same forward and backward, ends, and holds exactly the
\* nodes that have the node as parent; a node without parent has no
\* siblings; the parent links end; the document is the one node of its type
\* and has no parent
Consistent(ns) ==
  /\ \A p \in 1..Len(ns) :
       /\ Kids(ns, p) = ChainPrev(ns, ns[p].last_child, Len(ns))
       /\ Len(Kids(ns, p)) < Len(ns)
       /\ \A i, j \in 1..Len(Kids(ns, p)) :
            Kids(ns, p)[i] = Kids(ns, p)[j] => i = j
       /\ {Kids(ns, p)[i] : i \in 1..Len(Kids(ns, p))}
            = {n \in 1..Len(ns) : ns[n].parent = p}
       /\ ns[p].parent = NULL =>
            ns[p].prev_sibling = NULL /\ ns[p].next_sibling = NULL
       /\ Height(ns, p, Len(ns)) < Len(ns)
  /\ {n \in 1..Len(ns) : ns[n].type = "DOCUMENT"} = {1}
  /\ ns[1].parent = NULL

\* C17: after every mmd_add and every mmd_remove the links are consistent;
\* mmd_add puts the new node last among the children of its parent and
\* leaves every other chain as it is; mmd_remove leaves the node without
\* parent and without siblings, its former siblings linked in their order,
\* and every other chain, the node's own children among them, as it is.
C17_LinksConsistent ==
  [][/\ Consistent(nodes')
     /\ Len(nodes') = Len(nodes) + 1 =>
          \A p \in 1..Len(nodes) :
            Kids(nodes', p) =
              IF nodes'[Len(nodes')].parent = p
                THEN Append(Kids(nodes, p), Len(nodes')) ELSE Kids(nodes, p)
     /\ Len(nodes') = Len(nodes) =>
          \A d \in 1..Len(nodes) :
            (nodes[d].parent # NULL /\ nodes'[d].parent = NULL) =>
              /\ nodes'[d].prev_sibling = NULL
              /\ nodes'[d].next_sibling = NULL
              /\ \A p \in 1..Len(nodes) :
                   Kids(nodes', p) =
                     IF nodes[d].parent = p THEN Without(Kids(nodes, p), d)
                     ELSE Kids(nodes, p)
    ]_vars

\* A node with an elder and a younger sibling and a child of its own was
\* removed: the siblings are linked to each other, the child stays
C17_Witness ==
  \E d \in 2..Len(nodes), a, b, c \in 2..Len(nodes) :
    /\ nodes[d].parent = NULL
    /\ nodes[c].parent = d /\ nodes[d].first_child = c
    /\ nodes[a].parent = 1 /\ nodes[b].parent = 1
    /\ nodes[a].next_sibling = b /\ nodes[b].prev_sibling = a
    /\ a < d /\ d < b

-----------------------------------------------------------------------------
\* Fenced code blocks.

\* The lines of the files that exercise the fenced code blocks
FenceLines ==
  { L_fence, L_blank, L_h1in, L_dash, L_quote, L_trow, L_item, L_h1, L_spans }

\* mmdLoadFile on the files of fence lines
SpecFence == InitLoad(Files(FenceLines)) /\ [][Next]_vars

\* A fenced code block is open: it is the active block
FenceOpen == block # NULL /\ nodes[block].type = "CODE_BLOCK"

\* The line l begins, after its white space, with a backtick that a second
\* backtick or the end of the line follows: the line toggles a fence
IsFenceLine(l) ==
  /\ FirstNonSpace(l, 1) <= Len(l)
  /\ l[FirstNonSpace(l, 1)] = Backtick
  /\ \/ FirstNonSpace(l, 1) = Len(l)
     \/ l[FirstNonSpace(l, 1) + 1] = Backtick

\* C18: while a fenced code block is open, a line that is not a fence line,
\* be it blank, indented by four or more columns or like a metadata line, a
\* thematic break, a block quote, a table row, a list item or a heading, adds
\* exactly one node: a code-text node with the whole line, line break
\* included, as its text, the new last child of the code block.  The nodes
\* before keep their type, text, url and parent, and the context, the active
\* block, the table state and the references stay as they are.
C18_FencedVerbatim ==
  [][(AtLine /\ FenceOpen /\ ~IsFenceLine(input[fpos])) =>
       /\ Len(nodes') = Len(nodes) + 1
       /\ nodes'[Len(nodes')].type = "CODE_TEXT"
       /\ nodes'[Len(nodes')].text = Str(input[fpos])
       /\ nodes'[Len(nodes')].url = NoStr
       /\ Children(nodes', block) = Append(Children(nodes, block), Len(nodes'))
       /\ \A k \in 1..Len(nodes) :
            /\ nodes'[k].type = nodes[k].type /\ nodes'[k].text = nodes[k].text
            /\ nodes'[k].url = nodes[k].url /\ nodes'[k].parent = nodes[k].parent
            /\ k # block => Children(nodes', k) = Children(nodes, k)
       /\ UNCHANGED <<current, block, doc, columns, num_columns, rows,
                      blank_code>>
       /\ fpos' = fpos + 1
    ]_vars

\* A fence, an indented heading line and a table row were read: the code
\* block holds the two lines as they are
C18_Witness ==
  /\ pc = "done" /\ input = <<L_fence, L_h1in, L_trow>>
  /\ Len(nodes) = 4 /\ nodes[2].type = "CODE_BLOCK" /\ block = 2
  /\ Children(nodes, 2) = <<3, 4>>
  /\ nodes[3].type = "CODE_TEXT" /\ nodes[3].text = "    # in\n"
  /\ nodes[4].type = "CODE_TEXT" /\ nodes[4].text = "| 1 | 2 |\n"

\* C19: the lookahead of the table test leaves the file position where it
\* was: an iteration that looks ahead consumes its own line only, so that
\* the line looked at is the line the next iteration reads, whatever the
\* answer; an iteration looks ahead at most once and then at one line, or at
\* none at the end of the file; it looks ahead only when its line holds a
\* "|" and current is not a table.
C19_LookaheadRestores ==
  [][(AtLine /\ peeked' # <<>>) =>
       /\ fpos' = fpos + 1
       /\ peeked' = <<IF fpos = Len(input) THEN 0 ELSE 1>>
       /\ HasPipe(input[fpos])
       /\ nodes[current].type # "TABLE"
    ]_vars

\* The header line of a table was read: the iteration looked at the
\* separator line, which is the line to be read next
C19_Witness ==
  /\ pc = "parse" /\ peeked = <<1>>
  /\ fpos <= Len(input) /\ IsSeparatorLine(input[fpos])
  /\ nodes[current].type = "TABLE" /\ rows = 0

\* The new nodes of a step that have the type
NewOfType(type) ==
  {k \in (Len(nodes) + 1)..Len(nodes') : nodes'[k].type = type}

\* C20: with the header row and the separator row of a table processed, a
\* line with a "|" that is read while current is still that table adds
\* exactly one row node to the single body of the table, the parent of the
\* cells that the line adds; current stays and the alignments of the columns
\* stay as the separator row set them.
C20_EveryPipeLineIsRow ==
  [][(/\ AtLine /\ nodes[current].type = "TABLE" /\ rows >= 1
      /\ HasPipe(input[fpos])) =>
       /\ current' = current /\ fpos' = fpos + 1
       /\ columns' = columns
       /\ \E body \in 1..Len(nodes') : \E row \in (Len(nodes) + 1)..Len(nodes') :
            /\ NewOfType("TABLE_ROW") = {row}
            /\ NewOfType("TABLE_BODY") \subseteq {body}
            /\ nodes'[body].type = "TABLE_BODY"
            /\ nodes'[row].parent = body
            /\ {k \in 1..Len(nodes') : /\ nodes'[k].type = "TABLE_BODY"
                                       /\ nodes'[k].parent = current} = {body}
            /\ \A k \in (Len(nodes) + 1)..Len(nodes') :
                 nodes'[k].type \in {"TABLE_BODY_CELL_LEFT", "TABLE_BODY_CELL_CENTER",
                                     "TABLE_BODY_CELL_RIGHT"} => nodes'[k].parent = row
    ]_vars

-----------------------------------------------------------------------------
\* Rows of a table with fewer and with more cells than columns.

\* | 9 |\n
L_tshort ==
  <<"|", " ", "9", " ", "|", "\n">>

\* |1|2|3|\n
L_tlong ==
  <<"|", "1", "|", "2", "|", "3", "|", "\n">>

\* The lines that follow the separator line
RowLines == { L_trow, L_tshort, L_tlong, L_blank }

\* The files with a table whose rows differ in length: a header line, a
\* separator line and at most MaxRows further lines
RowFiles ==
  { <<h, s>> \o r :
      h \in TableHeads, s \in TableSeps,
      r \in UNION {[1..n -> RowLines] : n \in 0..MaxRows} }

\* mmdLoadFile on the files with rows of different lengths
SpecRows == InitLoad(RowFiles) /\ [][Next]_vars

\* The row that a step adds to the body of a table
NewBodyRow ==
  CHOOSE row \in NewOfType("TABLE_ROW") :
    nodes'[nodes'[row].parent].type = "TABLE_BODY"

\* The larger of two numbers
Larger(a, b) == IF a > b THEN a ELSE b

\* C21: a line that adds a row to the body of a table gives the row at least
\* as many cells as the table has columns so far: the cells written on the
\* line and, when these are fewer than the columns, one empty cell for each
\* further column, typed with the alignment of its column; a line with more
\* cells raises the number of columns to its number of cells, so that no row
\* of the body has fewer cells than the row before it.
C21_RowsPadded ==
  [][(/\ AtLine /\ nodes[current].type = "TABLE"
      /\ \E row \in NewOfType("TABLE_ROW") :
           nodes'[nodes'[row].parent].type = "TABLE_BODY") =>
       /\ Len(Children(nodes', NewBodyRow))
            = Larger(Len(CellsOf(input[fpos])), num_columns)
       /\ num_columns' = Len(Children(nodes', NewBodyRow))
       /\ columns' = columns
       /\ \A j \in 1..Len(Children(nodes', NewBodyRow)) :
            /\ nodes'[Children(nodes', NewBodyRow)[j]].type
                 = ColumnAt(columns, j - 1)
            /\ j > Len(CellsOf(input[fpos])) =>
                 /\ nodes'[Children(nodes', NewBodyRow)[j]].first_child = NULL
                 /\ nodes'[Children(nodes', NewBodyRow)[j]].text = NoStr
       /\ nodes'[NewBodyRow].prev_sibling # NULL =>
            Len(Children(nodes', nodes'[NewBodyRow].prev_sibling))
              <= Len(Children(nodes', NewBodyRow))
    ]_vars

\* A row of three cells widened the table of two columns and the row of one
\* cell after it was padded to three cells, the second one centered
C21_Witness ==
  /\ pc = "done" /\ input = <<L_thead, L_tsep, L_tlong, L_tshort>>
  /\ num_columns = 3
  /\ Len(Children(nodes, TheBody)) = 2
  /\ Len(Children(nodes, Children(nodes, TheBody)[2])) = 3
  /\ nodes[Children(nodes, Children(nodes, TheBody)[2])[2]].type
       = "TABLE_BODY_CELL_CENTER"
  /\ nodes[Children(nodes, Children(nodes, TheBody)[2])[2]].first_child = NULL
  /\ nodes[Children(nodes, Children(nodes, TheBody)[2])[1]].first_child # NULL

-----------------------------------------------------------------------------
\* Markers inside a span.

\* The markers of emphasis, strong and strikethrough text
Delims == { <<"*">>, <<"_">>, <<"*", "*">>, <<"_", "_">>, <<"~", "~">> }

\* The type of the span that the marker d opens
SpanOf(d) ==
  IF d = <<"~", "~">> THEN "STRUCK_TEXT"
  ELSE IF Len(d) = 2 THEN "STRONG_TEXT" ELSE "EMPHASIZED_TEXT"

\* The line with a span of d around a, m and b
Marked(d, m) == d \o <<"a">> \o m \o <<"b">> \o d \o <<"\n">>

\* The marker m inside a span of d is another marker: not d and not d doubled
OtherMarker(d, m) == m # d /\ m # d \o d

\* The lines with a span that holds nothing or another marker between a and b
MarkLines ==
  UNION { { Marked(d, m) :
              m \in {x \in Delims \cup {<<>>} : OtherMarker(d, x)} } :
          d \in Delims }

\* The files of one such line, alone or before a line of text
MarkFiles == { <<l>> : l \in MarkLines } \cup { <<l, L_text>> : l \in MarkLines }

\* mmdLoadFile on the files with a marker inside a span
SpecMark == InitLoad(MarkFiles) /\ [][Next]_vars

\* C22: a span of emphasis, strong or strikethrough text is closed by the
\* marker that opened it only: another marker between the two stays text of
\* the span, so that the line (d)a(m)b(d) gives one node of the type of d
\* with the text a(m)b.
C22_MatchingCloses ==
  \A d \in Delims : \A m \in Delims \cup {<<>>} :
    (pc = "done" /\ OtherMarker(d, m) /\ input = <<Marked(d, m)>>) =>
      /\ Children(nodes, 2) = <<3>>
      /\ nodes[3].type = SpanOf(d)
      /\ nodes[3].text = Str(<<"a">> \o m \o <<"b">>)

\* Without a marker in between, the marker that opened the span closes it
MarkedPlainCloses ==
  \A d \in Delims :
    (pc = "done" /\ input = <<Marked(d, <<>>)>>) =>
      /\ Children(nodes, 2) = <<3>>
      /\ nodes[3].type = SpanOf(d)
      /\ nodes[3].text = "ab"

-----------------------------------------------------------------------------
\* Code spans.

\* What the code spans of the inputs hold: white space, markers of spans, a
\* link, an image, an autolink and an escaped character
CodeInners ==
  { <<"a", " ", " ", "b">>, <<"*", "a", "*">>, <<"_", "_", "a", "_", "_">>,
    <<"~", "~", "a", "~", "~">>, <<"[", "a", "]", "(", "u", ")">>,
    <<"!", "[", "a", "]", "(", "u", ")">>, <<"<", "u", ">">>,
    <<"a", "\\", "*", "b">>, <<"\\", "\\">> }

\* The line with a code span around inner
Coded(inner) == <<Backtick>> \o inner \o <<Backtick, "\n">>

\* The files of one line with a code span, alone or before a line of text
CodeFiles ==
  { <<Coded(i)>> : i \in CodeInners } \cup { <<Coded(i), L_text>> : i \in CodeInners }

\* mmdLoadFile on the files with a code span
SpecCode == InitLoad(CodeFiles) /\ [][Next]_vars

\* C23: what stands between the two backticks of a code span is the text of
\* the code node, character by character: white space, "*", "_", "~~", "[",
\* "![", "<" and the backslash are copied as they are.
C23_CodeIsLiteral ==
  \A i \in CodeInners :
    (pc = "done" /\ input = <<Coded(i)>>) =>
      /\ Children(nodes, 2) = <<3>>
      /\ nodes[3].type = "CODE_TEXT"
      /\ nodes[3].text = Str(i)

\* The same for the code spans without a backslash
CodeIsLiteralButEscapes ==
  \A i \in CodeInners :
    (pc = "done" /\ input = <<Coded(i)>> /\ FirstIdx(i, "\\", 1) = 0) =>
      /\ Children(nodes, 2) = <<3>>
      /\ nodes[3].type = "CODE_TEXT"
      /\ nodes[3].text = Str(i)

-----------------------------------------------------------------------------
\* Hard breaks.

\* ab\n
L_sp0 ==
  <<"a", "b", "\n">>

\* ab \n
L_sp1 ==
  <<"a", "b", " ", "\n">>

\* ab  \n
L_sp2 ==
  <<"a", "b", " ", " ", "\n">>

\* ab   \n
L_sp3 ==
  <<"a", "b", " ", " ", " ", "\n">>

\* The lines with no, one, two and three spaces at their end, with a line
\* break and, for the last line of a file, without
BreakLines ==
  { L_sp0, L_sp1, L_sp2, L_sp3, Chomp(L_sp0), Chomp(L_sp1), Chomp(L_sp2) }

\* mmdLoadFile on the files of such lines
SpecBreak == InitLoad(Files(BreakLines)) /\ [][Next]_vars

\* The line l ends, before its line break, with a white space run of exactly
\* two spaces
EndsInTwoSpaces(l) ==
  /\ Len(Chomp(l)) >= 2
  /\ Chomp(l)[Len(Chomp(l))] = " " /\ Chomp(l)[Len(Chomp(l)) - 1] = " "
  /\ Len(Chomp(l)) > 2 => ~isspace(Chomp(l)[Len(Chomp(l)) - 2])

\* C24: a line of text adds one hard break node when it ends with exactly
\* two spaces before its end, and no hard break node otherwise, be it with
\* no space or with one space before its line break.
C24_BreakIffTwoSpaces ==
  [][AtLine =>
       Cardinality(NewOfType("HARD_BREAK"))
         = IF EndsInTwoSpaces(input[fpos]) THEN 1 ELSE 0
    ]_vars

\* A line adds at most one hard break node, and none without a space at its
\* end
BreakAtMostOnce ==
  [][AtLine =>
       /\ Cardinality(NewOfType("HARD_BREAK")) <= 1
       /\ input[fpos] \in {L_sp0, Chomp(L_sp0)} => NewOfType("HARD_BREAK") = {}
    ]_vars

-----------------------------------------------------------------------------
\* Headings with trailing "#".

\* # Title ##\n
L_h1trail ==
  <<"#", " ", "T", "i", "t", "l", "e", " ", "#", "#", "\n">>

\* The heading lines that read Title, with and without trailing "#" and with
\* and without a line break
TitleLines == { L_h1, Chomp(L_h1), L_h1trail, Chomp(L_h1trail) }

\* mmdLoadFile on the files of these lines and lines of text
SpecTitle == InitLoad(Files(TitleLines \cup {L_text})) /\ [][Next]_vars

\* C25: a heading line gives a heading whose content is the line without the
\* leading "#", the trailing "#" and the white space around them, with and
\* without a line break: each of the lines that read Title adds a heading of
\* level 1 with one child, the text node Title.
C25_HeadingStripped ==
  [][(AtLine /\ input[fpos] \in TitleLines) =>
       /\ Len(nodes') = Len(nodes) + 2
       /\ nodes'[Len(nodes) + 1].type = "HEADING_1"
       /\ Children(nodes', Len(nodes) + 1) = <<Len(nodes) + 2>>
       /\ nodes'[Len(nodes) + 2].type = "NORMAL_TEXT"
       /\ nodes'[Len(nodes) + 2].text = "Title"
    ]_vars

\* The same for the lines whose trailing "#" end the file
HeadingStrippedAtEnd ==
  [][(AtLine /\ input[fpos] \in TitleLines \ {L_h1trail}) =>
       /\ Len(nodes') = Len(nodes) + 2
       /\ nodes'[Len(nodes) + 1].type = "HEADING_1"
       /\ Children(nodes', Len(nodes) + 1) = <<Len(nodes) + 2>>
       /\ nodes'[Len(nodes) + 2].type = "NORMAL_TEXT"
       /\ nodes'[Len(nodes) + 2].text = "Title"
    ]_vars

-----------------------------------------------------------------------------
\* Thematic breaks and the lines that only begin like one.

\* --- x\n
L_dashx ==
  <<"-", "-", "-", " ", "x", "\n">>

\* ***\n
L_stars ==
  <<"*", "*", "*", "\n">>

\* The lines of the files with thematic breaks
RuleLines == { L_dash, L_stars, L_dashx, L_eqx, L_text, L_blank }

\* mmdLoadFile on the files with thematic breaks
SpecRule == InitLoad(Files(RuleLines)) /\ [][Next]_vars

\* C26: a line that begins with three "-" but holds something else, read
\* with no active block, and a line that begins with three "=" but fails the
\* test of a heading underline, read inside a paragraph, are classified by
\* the later rules with their full text: the three characters are among the
\* text that the line adds.
C26_FallbackKeepsText ==
  [][(/\ AtLine /\ input[fpos] \in {L_dashx, L_eqx}
      /\ nodes[1].first_child # NULL
      /\ \/ block = NULL
         \/ nodes[block].type = "PARAGRAPH") =>
       \E k \in (Len(nodes) + 1)..Len(nodes') :
         nodes'[k].text = Str(SubSeq(input[fpos], 1, 3))
    ]_vars

\* A thematic break is added only with no active block and for a line of
\* three or more of one of "-", "*" and "_" and white space
RuleOnlyWithoutBlock ==
  [][(AtLine /\ NewOfType("THEMATIC_BREAK") # {}) =>
       /\ block = NULL
       /\ \E ch \in {"-", "*", "_"} : IsRuleOf(input[fpos], ch)
    ]_vars

-----------------------------------------------------------------------------
\* Block quotes and the lines after them.

\* > - a\n
L_qitem ==
  <<">", " ", "-", " ", "a", "\n">>

\* The lines of the files with block quotes
QuoteLines == { L_quote, L_qitem, L_item, L_text, L_blank }

\* mmdLoadFile on the files with block quotes
SpecQuote == InitLoad(Files(QuoteLines)) /\ [][Next]_vars

\* The node is a block quote or inside one
InQuote(ns, node) == ns[FindQuote(ns, node)].type = "BLOCK_QUOTE"

\* C27: a line that does not begin with ">", read while current is a block
\* quote or a node inside one, leaves current outside every block quote, and
\* no block that the line opens is inside a block quote.
C27_LeavesQuote ==
  [][(AtLine /\ input[fpos][1] # ">" /\ InQuote(nodes, current)) =>
       /\ ~InQuote(nodes', current')
       /\ \A k \in (Len(nodes) + 1)..Len(nodes') :
            ~IsInlineNode(nodes'[k]) => ~InQuote(nodes', k)
    ]_vars

\* The same while current is the block quote itself; a line that begins with
\* ">" and is read with current outside every block quote opens a new one
QuoteItselfIsLeft ==
  [][/\ (/\ AtLine /\ input[fpos][1] # ">"
         /\ nodes[current].type = "BLOCK_QUOTE") =>
          /\ ~InQuote(nodes', current')
          /\ \A k \in (Len(nodes) + 1)..Len(nodes') :
               ~IsInlineNode(nodes'[k]) => ~InQuote(nodes', k)
     /\ (AtLine /\ input[fpos][1] = ">" /\ ~InQuote(nodes, current)) =>
          /\ nodes'[Len(nodes) + 1].type = "BLOCK_QUOTE"
          /\ InQuote(nodes', current')
    ]_vars

-----------------------------------------------------------------------------
\* Pending nodes of the references.

\* C28: after every step of the parse no reference has both a url and
\* pending nodes.  A node joins the pending nodes of a reference only while
\* the reference has no url, and it has no url itself; when a reference gets
\* its url, the nodes that were pending get that url and none stays pending;
\* a node that has a url, from a "(url)" or from a reference, keeps it.
C28_PendingOrUrl ==
  [][/\ \A i \in 1..Len(doc') :
          doc'[i].url = NoStr \/ doc'[i].pending = <<>>
     /\ \A i \in 1..Len(doc') : \A j \in 1..Len(doc'[i].pending) :
          (\/ i > Len(doc)
           \/ \A k \in 1..Len(doc[i].pending) :
                doc[i].pending[k] # doc'[i].pending[j]) =>
            /\ i <= Len(doc) => doc[i].url = NoStr
            /\ nodes'[doc'[i].pending[j]].url = NoStr
     /\ \A i \in 1..Len(doc) :
          (i <= Len(doc') /\ doc[i].url = NoStr /\ doc'[i].url # NoStr) =>
            \A j \in 1..Len(doc[i].pending) :
              nodes'[doc[i].pending[j]].url = doc'[i].url
     /\ \A k \in 1..Len(nodes) :
          nodes[k].url # NoStr => nodes'[k].url = nodes[k].url
    ]_vars

\* A link that uses bar was pending when the definition of bar was read: the
\* reference has its url, the link has it too and nothing is pending
C28_Witness ==
  /\ pc = "parse" /\ fpos = 3
  /\ input[1] = L_use /\ input[2] = L_def1
  /\ Len(doc) = 1 /\ doc[1].url = "u1" /\ doc[1].pending = <<>>
  /\ \E n \in 1..Len(nodes) :
       nodes[n].type = "LINKED_TEXT" /\ nodes[n].url = "u1"

-----------------------------------------------------------------------------
\* Links, images and autolinks right after text.

\* see:[x](u)\n
L_glue ==
  <<"s", "e", "e", ":", "[", "x", "]", "(", "u", ")", "\n">>

\* ([x](u))\n
L_paren ==
  <<"(", "[", "x", "]", "(", "u", ")", ")", "\n">>

\* a![i](u)\n
L_glueimg ==
  <<"a", "!", "[", "i", "]", "(", "u", ")", "\n">>

\* go<u>now\n
L_glueauto ==
  <<"g", "o", "<", "u", ">", "n", "o", "w", "\n">>

\* see [x](u)\n
L_apart ==
  <<"s", "e", "e", " ", "[", "x", "]", "(", "u", ")", "\n">>

\* The lines with a link, an image or an autolink right after text
GlueLines == { L_glue, L_paren, L_glueimg, L_glueauto }

\* mmdLoadFile on the files of these lines and of a line with a space before
\* its link
SpecGlue == InitLoad(Files(GlueLines \cup {L_apart})) /\ [][Next]_vars

\* The text of the line l before its first space, "[", "![" or "<"
RunBefore(l) ==
  SubSeq(l, 1,
         (CHOOSE i \in 1..Len(l) :
            /\ l[i] \in {" ", "[", "!", "<"}
            /\ \A j \in 1..(i - 1) : l[j] \notin {" ", "[", "!", "<"}) - 1)

\* The first inline node that a step adds
FirstInline ==
  CHOOSE k \in (Len(nodes) + 1)..Len(nodes') :
    /\ IsInlineNode(nodes'[k])
    /\ \A j \in (Len(nodes) + 1)..(k - 1) : ~IsInlineNode(nodes'[j])

\* C29: when a link, an image or an autolink follows text with no white
\* space in between, the node of that text holds the characters before the
\* "[", "![" or "<" and nothing of the link or of the rest of the line.
C29_RunEndsAtOpener ==
  [][(AtLine /\ input[fpos] \in GlueLines) =>
       /\ nodes'[FirstInline].type = "NORMAL_TEXT"
       /\ nodes'[FirstInline].text = Str(RunBefore(input[fpos]))
    ]_vars

\* With a space before the link the node of the text ends at the space
RunEndsAtSpace ==
  [][(AtLine /\ input[fpos] = L_apart) =>
       /\ nodes'[FirstInline].type = "NORMAL_TEXT"
       /\ nodes'[FirstInline].text = "see"
    ]_vars

-----------------------------------------------------------------------------
\* Children of code blocks.

\* C30: in every state of the parse and in the tree that is returned, every
\* child of a code block is a code text node.
C30_CodeBlockHoldsCodeText ==
  \A k \in 2..Len(nodes) :
    nodes[nodes[k].parent].type = "CODE_BLOCK" => nodes[k].type = "CODE_TEXT"

====
